---------------------------- MODULE Spec2Model ----------------------------
(***************************************************************************)
(* The composable validation engine (schema.ts): validators built through  *)
(* the Schema facade live in a heap of instances (children are referred to *)
(* by instance id, as the composites keep the very instances they were     *)
(* constructed with), are configured by chained calls that mutate the      *)
(* instance, and are run by validate(value).                               *)
(***************************************************************************)
EXTENDS Integers, Sequences, FiniteSets, TLC

VARIABLES heap, now, nconf, ret

vars == <<heap, now, nconf, ret>>

(***************************************************************************)
(* Bounds of the model.                                                    *)
(***************************************************************************)
MaxInstances == 2
MaxConfigCalls == 1
MaxItems == 2
MaxFlatItems == 4
\* The clock stops at this instant.
MaxNow == 3

(***************************************************************************)
(* JavaScript values.  Arrays, objects and Dates are reference types: ref  *)
(* tells a value handed in by the caller ("input") from one allocated      *)
(* during validate ("fresh").                                              *)
(***************************************************************************)
Undefined == [t |-> "undefined"]
Null == [t |-> "null"]
Func == [t |-> "function"]
Str(s) == [t |-> "string", s |-> s]
Num(n) == [t |-> "number", n |-> n, half |-> FALSE, nan |-> FALSE]
NumHalf(n) == [t |-> "number", n |-> n, half |-> TRUE, nan |-> FALSE]
NaN == [t |-> "number", n |-> 0, half |-> FALSE, nan |-> TRUE]
Bool(b) == [t |-> "boolean", b |-> b]
DateObj(valid, time, ref) == [t |-> "date", valid |-> valid, time |-> time, ref |-> ref]
Arr(items, ref) == [t |-> "array", items |-> items, ref |-> ref]
Obj(fields, ref) == [t |-> "object", fields |-> fields, ref |-> ref]

None == <<>>
Some(x) == <<x>>

typeof(v) ==
  CASE v.t = "undefined" -> "undefined"
    [] v.t = "string" -> "string"
    [] v.t = "number" -> "number"
    [] v.t = "boolean" -> "boolean"
    [] v.t = "function" -> "function"
    [] OTHER -> "object"

isArray(v) == v.t = "array"

\* Names every plain object inherits from Object.prototype.
ObjectPrototypeKeys == {"constructor", "toString", "valueOf", "hasOwnProperty"}

\* obj[key]: an own property, else the inherited member, else undefined.
GetProp(obj, key) ==
  CASE obj.t = "object" /\ key \in DOMAIN obj.fields -> obj.fields[key]
    [] obj.t = "array" /\ key = "length" -> Num(Len(obj.items))
    [] key \in ObjectPrototypeKeys -> Func
    [] OTHER -> Undefined

\* Number to string, as a template literal prints it.
NumToString(v) ==
  IF v.nan THEN "NaN"
  ELSE IF v.half THEN ToString(v.n) \o ".5"
  ELSE ToString(v.n)

\* `${value}` for the primitives a literal validator holds.
TemplateString(v) ==
  CASE v.t = "string" -> v.s
    [] v.t = "number" -> NumToString(v)
    [] v.t = "boolean" -> IF v.b THEN "true" ELSE "false"

\* Array.prototype.join(sep) on a sequence of strings.
RECURSIVE join(_, _)
join(strs, sep) ==
  IF Len(strs) = 0 THEN ""
  ELSE IF Len(strs) = 1 THEN strs[1]
  ELSE strs[1] \o sep \o join(Tail(strs), sep)

\* a < b and a > b on non-NaN numbers (n + 1/2 when half).
NumLess(a, b) == 2 * a.n + (IF a.half THEN 1 ELSE 0) < 2 * b.n + (IF b.half THEN 1 ELSE 0)
NumGreater(a, b) == NumLess(b, a)

\* v === w for the primitives a literal is compared with.
StrictEquals(v, w) ==
  /\ v.t = w.t
  /\ CASE v.t = "string" -> v.s = w.s
       [] v.t = "number" -> ~v.nan /\ ~w.nan /\ v.n = w.n /\ v.half = w.half
       [] v.t = "boolean" -> v.b = w.b
       [] v.t = "undefined" -> TRUE
       [] v.t = "null" -> TRUE
       [] OTHER -> v = w

(***************************************************************************)
(* Regular expressions.  A RegExp object holds its source, its g flag and  *)
(* lastIndex, the position at which a g RegExp starts its next search.     *)
(* Every source of the model is anchored at the start of the string and    *)
(* matches up to its end.                                                  *)
(***************************************************************************)
EmailPattern == "^[^\\s@]+@[^\\s@]+\\.[^\\s@]+$"
UrlPattern == "^https?:\\/\\/.+"
DigitsPattern == "^\\d+$"

Regex(source, global) == [source |-> source, global |-> global, lastIndex |-> 0]

\* Whether the source matches the whole string s.
Matches(source, s) ==
  CASE source = EmailPattern -> s \in {"a@b.c"}
    [] source = UrlPattern -> s \in {"http://x"}
    [] source = DigitsPattern -> s \in {"1", "42", "123", "1234"}
    [] OTHER -> FALSE

\* regex.test(s): without g the search starts at 0; with g it starts at
\* lastIndex, where an anchored source matches only if lastIndex is 0.
RegexTest(regex, s) ==
  IF regex.global
  THEN regex.lastIndex = 0 /\ Matches(regex.source, s)
  ELSE Matches(regex.source, s)

\* The RegExp object after regex.test(s): with g, lastIndex becomes the end
\* of the match, or 0 when there is none.
RegexAfterTest(regex, s) ==
  IF regex.global
  THEN [regex EXCEPT !.lastIndex = IF RegexTest(regex, s) THEN Len(s) ELSE 0]
  ELSE regex

(***************************************************************************)
(* The platform Date constructor.  Times are abstract instants.            *)
(***************************************************************************)
DateStrings == [s \in {"2023-01-01", "1970-01-01"} |-> IF s = "2023-01-01" THEN 2 ELSE 0]

\* new Date(value) for a string or a number.
NewDate(v) ==
  IF v.t = "string"
  THEN IF v.s \in DOMAIN DateStrings
       THEN DateObj(TRUE, DateStrings[v.s], "fresh")
       ELSE DateObj(FALSE, 0, "fresh")
  ELSE IF v.nan THEN DateObj(FALSE, 0, "fresh")
       ELSE DateObj(TRUE, v.n, "fresh")

\* What stands for the exception toISOString throws on an invalid Date.
RangeErrorThrown == "RangeError: Invalid time value"

toISOString(d) == IF d.valid THEN "ISO(" \o ToString(d.time) \o ")" ELSE RangeErrorThrown

\* a < b on Dates (an invalid Date compares false either way).
DateLess(a, b) == a.valid /\ b.valid /\ a.time < b.time

(***************************************************************************)
(* Validator instances as the constructors leave them.                     *)
(***************************************************************************)
StringValidator ==
  [kind |-> "String", optional |-> FALSE, customMessage |-> None,
   minLength |-> None, maxLength |-> None, pattern |-> None]
NumberValidator ==
  [kind |-> "Number", optional |-> FALSE, customMessage |-> None,
   min |-> None, max |-> None, integer |-> FALSE, positive |-> FALSE]
BooleanValidator ==
  [kind |-> "Boolean", optional |-> FALSE, customMessage |-> None]
DateValidator ==
  [kind |-> "Date", optional |-> FALSE, customMessage |-> None,
   minDate |-> None, maxDate |-> None]
ArrayValidator(itemValidator) ==
  [kind |-> "Array", optional |-> FALSE, customMessage |-> None,
   minLength |-> None, maxLength |-> None, itemValidator |-> itemValidator]
ObjectValidator(schema) ==
  [kind |-> "Object", optional |-> FALSE, customMessage |-> None, schema |-> schema]
UnionValidator(validators) ==
  [kind |-> "Union", optional |-> FALSE, customMessage |-> None, validators |-> validators]
LiteralValidator(value) ==
  [kind |-> "Literal", optional |-> FALSE, customMessage |-> None, value |-> value]

(***************************************************************************)
(* ValidationUtils and the Validator base class.  A helper that returns    *)
(* `X | null` returns None or Some(X).                                     *)
(***************************************************************************)
isNullish(value) == value.t = "null" \/ value.t = "undefined"

\* validateRange comparing with <= and >= (exclusive bounds).
validateRange_Exclusive(value, min, max, type) ==
  IF min # None /\ ~NumGreater(value, min[1])
  THEN Some(type \o " must be at least " \o NumToString(min[1]))
  ELSE IF max # None /\ ~NumLess(value, max[1])
  THEN Some(type \o " must be no more than " \o NumToString(max[1]))
  ELSE None

validateRange(value, min, max, type) ==
  IF min # None /\ NumLess(value, min[1])
  THEN Some(type \o " must be at least " \o NumToString(min[1]))
  ELSE IF max # None /\ NumGreater(value, max[1])
  THEN Some(type \o " must be no more than " \o NumToString(max[1]))
  ELSE None

validateLength(length, minLength, maxLength, type) ==
  LET unit == IF type = "Array" THEN "items" ELSE "characters long" IN
  IF minLength # None /\ length < minLength[1]
  THEN Some(type \o " must have at least " \o ToString(minLength[1]) \o " " \o unit)
  ELSE IF maxLength # None /\ length > maxLength[1]
  THEN Some(type \o " must have no more than " \o ToString(maxLength[1]) \o " " \o unit)
  ELSE None

createPatternError == "Value does not match the required pattern"

\* this._customMessage || message: an unset or empty custom message is falsy.
createError(self, message) ==
  [success |-> FALSE,
   errors |-> <<IF self.customMessage # None /\ self.customMessage[1] # ""
                THEN self.customMessage[1]
                ELSE message>>]

createSuccess(data) == [success |-> TRUE, data |-> data]

\* handleOptional testing `value === undefined` in place of isNullish(value).
handleOptional_UndefinedOnly(self, value) ==
  IF value.t = "undefined"
  THEN IF self.optional
       THEN Some(createSuccess(Undefined))
       ELSE Some(createError(self, "Value is required"))
  ELSE None

handleOptional(self, value) ==
  IF isNullish(value)
  THEN IF self.optional
       THEN Some(createSuccess(Undefined))
       ELSE Some(createError(self, "Value is required"))
  ELSE None

validateType(self, value, expectedType, typeName) ==
  IF typeof(value) # expectedType
  THEN Some(createError(self, "Value must be a " \o typeName))
  ELSE None

(***************************************************************************)
(* The leaf validators.                                                    *)
(***************************************************************************)
\* StringValidator.validate testing the pattern before the length.
StringValidate_PatternFirst(self, value) ==
  LET optionalResult == handleOptional(self, value) IN
  IF optionalResult # None THEN optionalResult[1]
  ELSE
  LET typeError == validateType(self, value, "string", "string") IN
  IF typeError # None THEN typeError[1]
  ELSE IF self.pattern # None /\ ~RegexTest(self.pattern[1], value.s)
  THEN createError(self, createPatternError)
  ELSE
  LET lengthError == validateLength(Len(value.s), self.minLength, self.maxLength, "String") IN
  IF lengthError # None THEN createError(self, lengthError[1])
  ELSE createSuccess(value)

StringValidate(self, value) ==
  LET optionalResult == handleOptional(self, value) IN
  IF optionalResult # None THEN optionalResult[1]
  ELSE
  LET typeError == validateType(self, value, "string", "string") IN
  IF typeError # None THEN typeError[1]
  ELSE
  LET lengthError == validateLength(Len(value.s), self.minLength, self.maxLength, "String") IN
  IF lengthError # None THEN createError(self, lengthError[1])
  ELSE IF self.pattern # None /\ ~RegexTest(self.pattern[1], value.s)
  THEN createError(self, createPatternError)
  ELSE createSuccess(value)

\* The String instance after validate(value): the one write is the lastIndex
\* of the pattern, made by pattern.test when the call gets that far.
StringAfterValidate(self, value) ==
  IF \/ handleOptional(self, value) # None
     \/ validateType(self, value, "string", "string") # None
     \/ validateLength(Len(value.s), self.minLength, self.maxLength, "String") # None
     \/ self.pattern = None
  THEN self
  ELSE [self EXCEPT !.pattern = Some(RegexAfterTest(self.pattern[1], value.s))]

\* NumberValidator.validate testing positive before range and integer.
NumberValidate_PositiveFirst(self, value) ==
  LET optionalResult == handleOptional(self, value) IN
  IF optionalResult # None THEN optionalResult[1]
  ELSE IF typeof(value) # "number" \/ value.nan
  THEN createError(self, "Value must be a number")
  ELSE IF self.positive /\ ~NumGreater(value, Num(0))
  THEN createError(self, "Number must be positive")
  ELSE
  LET rangeError == validateRange(value, self.min, self.max, "Number") IN
  IF rangeError # None THEN createError(self, rangeError[1])
  ELSE IF self.integer /\ value.half
  THEN createError(self, "Number must be an integer")
  ELSE createSuccess(value)

NumberValidate(self, value) ==
  LET optionalResult == handleOptional(self, value) IN
  IF optionalResult # None THEN optionalResult[1]
  ELSE IF typeof(value) # "number" \/ value.nan
  THEN createError(self, "Value must be a number")
  ELSE
  LET rangeError == validateRange(value, self.min, self.max, "Number") IN
  IF rangeError # None THEN createError(self, rangeError[1])
  ELSE IF self.integer /\ value.half
  THEN createError(self, "Number must be an integer")
  ELSE IF self.positive /\ ~NumGreater(value, Num(0))
  THEN createError(self, "Number must be positive")
  ELSE createSuccess(value)

BooleanValidate(self, value) ==
  LET optionalResult == handleOptional(self, value) IN
  IF optionalResult # None THEN optionalResult[1]
  ELSE
  LET typeError == validateType(self, value, "boolean", "boolean") IN
  IF typeError # None THEN typeError[1]
  ELSE createSuccess(value)

\* parseDate reporting every input it cannot use as an invalid date.
parseDate_OneMessage(self, value) ==
  IF value.t \notin {"date", "string", "number"}
  THEN createError(self, "Value must be a valid date")
  ELSE
  LET date == IF value.t = "date" THEN value ELSE NewDate(value) IN
  IF ~date.valid
  THEN createError(self, "Value must be a valid date")
  ELSE createSuccess(date)

parseDate(self, value) ==
  IF value.t \notin {"date", "string", "number"}
  THEN createError(self, "Value must be a Date, string, or number")
  ELSE
  LET date == IF value.t = "date" THEN value ELSE NewDate(value) IN
  IF ~date.valid
  THEN createError(self, "Value must be a valid date")
  ELSE createSuccess(date)

\* validateDateRange building the message of a bound before comparing with it.
validateDateRange_FormatsFirst(self, date) ==
  LET after == IF self.minDate # None THEN toISOString(self.minDate[1]) ELSE ""
      before == IF self.maxDate # None THEN toISOString(self.maxDate[1]) ELSE ""
  IN
  IF RangeErrorThrown \in {after, before} THEN Some(RangeErrorThrown)
  ELSE IF self.minDate # None /\ DateLess(date, self.minDate[1])
  THEN Some("Date must be after " \o after)
  ELSE IF self.maxDate # None /\ DateLess(self.maxDate[1], date)
  THEN Some("Date must be before " \o before)
  ELSE None

\* validateDateRange reading the clock when it runs, for a bound that future()
\* or past() set.
validateDateRange_ClockAtValidate(self, date) ==
  LET clock == DateObj(TRUE, now, "fresh")
      isFuture == self.customMessage = Some("Date must be in the future")
      isPast == self.customMessage = Some("Date must be in the past")
  IN
  IF self.minDate # None /\ DateLess(date, IF isFuture THEN clock ELSE self.minDate[1])
  THEN Some("Date must be after " \o toISOString(self.minDate[1]))
  ELSE IF self.maxDate # None /\ DateLess(IF isPast THEN clock ELSE self.maxDate[1], date)
  THEN Some("Date must be before " \o toISOString(self.maxDate[1]))
  ELSE None

\* validateDateRange comparing with <= and >= (exclusive bounds).
validateDateRange_Exclusive(self, date) ==
  IF self.minDate # None /\ ~DateLess(self.minDate[1], date)
  THEN Some("Date must be after " \o toISOString(self.minDate[1]))
  ELSE IF self.maxDate # None /\ ~DateLess(date, self.maxDate[1])
  THEN Some("Date must be before " \o toISOString(self.maxDate[1]))
  ELSE None

validateDateRange(self, date) ==
  IF self.minDate # None /\ DateLess(date, self.minDate[1])
  THEN Some("Date must be after " \o toISOString(self.minDate[1]))
  ELSE IF self.maxDate # None /\ DateLess(self.maxDate[1], date)
  THEN Some("Date must be before " \o toISOString(self.maxDate[1]))
  ELSE None

DateValidate(self, value) ==
  LET optionalResult == handleOptional(self, value) IN
  IF optionalResult # None THEN optionalResult[1]
  ELSE
  LET dateResult == parseDate(self, value) IN
  IF ~dateResult.success THEN dateResult
  ELSE
  LET rangeError == validateDateRange(self, dateResult.data) IN
  IF rangeError # None THEN createError(self, rangeError[1])
  ELSE createSuccess(dateResult.data)

\* v == w (loose equality) between primitives: operands of different types
\* are compared as numbers.
ToNumber(v) ==
  CASE v.t = "number" -> v
    [] v.t = "boolean" -> IF v.b THEN Num(1) ELSE Num(0)
    [] v.t = "string" -> IF v.s = "42" THEN Num(42) ELSE IF v.s = "1" THEN Num(1) ELSE NaN
    [] OTHER -> NaN
LooseEquals(v, w) ==
  IF v.t = w.t THEN StrictEquals(v, w) ELSE StrictEquals(ToNumber(v), ToNumber(w))

\* The literal validator comparing with == in place of ===.
LiteralValidate_LooseEquals(self, input) ==
  LET optionalResult == handleOptional(self, input) IN
  IF optionalResult # None THEN optionalResult[1]
  ELSE IF ~LooseEquals(input, self.value)
  THEN createError(self, "Value must be exactly " \o TemplateString(self.value))
  ELSE createSuccess(input)

LiteralValidate(self, input) ==
  LET optionalResult == handleOptional(self, input) IN
  IF optionalResult # None THEN optionalResult[1]
  ELSE IF ~StrictEquals(input, self.value)
  THEN createError(self, "Value must be exactly " \o TemplateString(self.value))
  ELSE createSuccess(input)

(***************************************************************************)
(* The composite validators.  h is the heap of instances; a composite      *)
(* delegates to the instances it refers to.  validate(h, id, value) is     *)
(* what the call returns and AfterValidate(h, id, value) the heap it       *)
(* leaves; a loop runs each child call on the heap the previous one left.  *)
(***************************************************************************)
RECURSIVE validate(_, _, _)
RECURSIVE AfterValidate(_, _, _)
RECURSIVE validateItemsLoop(_, _, _, _, _)
RECURSIVE validateFieldsLoop(_, _, _, _, _)
RECURSIVE UnionLoop(_, _, _, _)

\* The loop of validateItems leaving at the first failing element.
RECURSIVE validateItemsLoop_StopAtFirstError(_, _, _, _, _)
validateItemsLoop_StopAtFirstError(h, self, array, i, acc) ==
  IF ~(i < Len(array)) THEN acc
  ELSE
  LET result == validate(h, self.itemValidator, array[i + 1]) IN
  IF result.success
  THEN validateItemsLoop_StopAtFirstError(AfterValidate(h, self.itemValidator, array[i + 1]),
         self, array, i + 1,
         [acc EXCEPT !.validatedItems = Append(@, result.data)])
  ELSE [acc EXCEPT !.errors =
          Append(@, "Item at index " \o ToString(i) \o ": " \o join(result.errors, ", "))]

\* The loop of validateItems pushing one entry per error of the child.
RECURSIVE validateItemsLoop_EntryPerError(_, _, _, _, _)
validateItemsLoop_EntryPerError(h, self, array, i, acc) ==
  IF ~(i < Len(array)) THEN acc
  ELSE
  LET result == validate(h, self.itemValidator, array[i + 1]) IN
  validateItemsLoop_EntryPerError(AfterValidate(h, self.itemValidator, array[i + 1]), self, array, i + 1,
    IF result.success
    THEN [acc EXCEPT !.validatedItems = Append(@, result.data)]
    ELSE [acc EXCEPT !.errors =
            @ \o [j \in 1..Len(result.errors) |->
                    "Item at index " \o ToString(i) \o ": " \o result.errors[j]]])

\* The instance as its constructor leaves it, every configuration undone.
AsConstructed(self) ==
  CASE self.kind = "String" -> StringValidator
    [] self.kind = "Number" -> NumberValidator
    [] self.kind = "Boolean" -> BooleanValidator
    [] self.kind = "Date" -> DateValidator
    [] self.kind = "Array" -> ArrayValidator(self.itemValidator)
    [] self.kind = "Object" -> ObjectValidator(self.schema)
    [] self.kind = "Union" -> UnionValidator(self.validators)
    [] self.kind = "Literal" -> LiteralValidator(self.value)

\* The loop of validateItems running a copy of the item validator taken when
\* the array validator was constructed.
RECURSIVE validateItemsLoop_CopiedChild(_, _, _, _, _)
validateItemsLoop_CopiedChild(h, self, array, i, acc) ==
  IF ~(i < Len(array)) THEN acc
  ELSE
  LET copy == [h EXCEPT ![self.itemValidator] = AsConstructed(@)]
      result == validate(copy, self.itemValidator, array[i + 1])
  IN
  validateItemsLoop_CopiedChild(h, self, array, i + 1,
    IF result.success
    THEN [acc EXCEPT !.validatedItems = Append(@, result.data)]
    ELSE [acc EXCEPT !.errors =
            Append(@, "Item at index " \o ToString(i) \o ": " \o join(result.errors, ", "))])

\* The loop of validateItems pushing defined data only, as validateFields
\* stores it.
RECURSIVE validateItemsLoop_DropsUndefined(_, _, _, _, _)
validateItemsLoop_DropsUndefined(h, self, array, i, acc) ==
  IF ~(i < Len(array)) THEN acc
  ELSE
  LET result == validate(h, self.itemValidator, array[i + 1]) IN
  validateItemsLoop_DropsUndefined(AfterValidate(h, self.itemValidator, array[i + 1]), self, array, i + 1,
    IF result.success
    THEN IF result.data # Undefined
         THEN [acc EXCEPT !.validatedItems = Append(@, result.data)]
         ELSE acc
    ELSE [acc EXCEPT !.errors =
            Append(@, "Item at index " \o ToString(i) \o ": " \o join(result.errors, ", "))])

\* The for loop of validateItems from (0-based) index i on.
validateItemsLoop(h, self, array, i, acc) ==
  IF ~(i < Len(array)) THEN acc
  ELSE
  LET result == validate(h, self.itemValidator, array[i + 1]) IN
  validateItemsLoop(AfterValidate(h, self.itemValidator, array[i + 1]), self, array, i + 1,
    IF result.success
    THEN [acc EXCEPT !.validatedItems = Append(@, result.data)]
    ELSE [acc EXCEPT !.errors =
            Append(@, "Item at index " \o ToString(i) \o ": " \o join(result.errors, ", "))])

\* validateItems returning the failure shape whatever errors holds.
validateItems_AlwaysFailure(h, self, array) ==
  LET acc == validateItemsLoop(h, self, array, 0, [validatedItems |-> <<>>, errors |-> <<>>]) IN
  [success |-> FALSE, errors |-> acc.errors]

validateItems(h, self, array) ==
  LET acc == validateItemsLoop(h, self, array, 0, [validatedItems |-> <<>>, errors |-> <<>>]) IN
  IF Len(acc.errors) > 0
  THEN [success |-> FALSE, errors |-> acc.errors]
  ELSE createSuccess(Arr(acc.validatedItems, "fresh"))

\* ArrayValidator.validate validating the items before the length.
ArrayValidate_ItemsFirst(h, self, value) ==
  LET optionalResult == handleOptional(self, value) IN
  IF optionalResult # None THEN optionalResult[1]
  ELSE IF ~isArray(value)
  THEN createError(self, "Value must be an array")
  ELSE
  LET itemResult == validateItems(h, self, value.items) IN
  IF ~itemResult.success THEN itemResult
  ELSE
  LET lengthError == validateLength(Len(value.items), self.minLength, self.maxLength, "Array") IN
  IF lengthError # None THEN createError(self, lengthError[1])
  ELSE createSuccess(itemResult.data)

ArrayValidate(h, self, value) ==
  LET optionalResult == handleOptional(self, value) IN
  IF optionalResult # None THEN optionalResult[1]
  ELSE IF ~isArray(value)
  THEN createError(self, "Value must be an array")
  ELSE
  LET lengthError == validateLength(Len(value.items), self.minLength, self.maxLength, "Array") IN
  IF lengthError # None THEN createError(self, lengthError[1])
  ELSE
  LET itemResult == validateItems(h, self, value.items) IN
  IF ~itemResult.success THEN itemResult
  ELSE createSuccess(itemResult.data)

\* validatedObj[key] = data
SetProp(fields, key, data) ==
  [k \in DOMAIN fields \cup {key} |-> IF k = key THEN data ELSE fields[k]]

\* The loop of validateFields pushing one entry per error of the child.
RECURSIVE validateFieldsLoop_EntryPerError(_, _, _, _, _)
validateFieldsLoop_EntryPerError(h, self, obj, i, acc) ==
  IF i > Len(self.schema) THEN acc
  ELSE
  LET key == self.schema[i].key
      result == validate(h, self.schema[i].validator, GetProp(obj, key))
  IN
  validateFieldsLoop_EntryPerError(AfterValidate(h, self.schema[i].validator, GetProp(obj, key)), self, obj, i + 1,
    IF result.success
    THEN IF result.data # Undefined
         THEN [acc EXCEPT !.validatedObj = SetProp(@, key, result.data)]
         ELSE acc
    ELSE [acc EXCEPT !.errors =
            @ \o [j \in 1..Len(result.errors) |-> "Field '" \o key \o "': " \o result.errors[j]]])

\* The loop of validateFields writing every successful field, undefined or not.
RECURSIVE validateFieldsLoop_KeepsUndefined(_, _, _, _, _)
validateFieldsLoop_KeepsUndefined(h, self, obj, i, acc) ==
  IF i > Len(self.schema) THEN acc
  ELSE
  LET key == self.schema[i].key
      result == validate(h, self.schema[i].validator, GetProp(obj, key))
  IN
  validateFieldsLoop_KeepsUndefined(AfterValidate(h, self.schema[i].validator, GetProp(obj, key)), self, obj, i + 1,
    IF result.success
    THEN [acc EXCEPT !.validatedObj = SetProp(@, key, result.data)]
    ELSE [acc EXCEPT !.errors =
            Append(@, "Field '" \o key \o "': " \o join(result.errors, ", "))])

\* The loop of validateFields walking the schema's entries from the last one
\* to the first.
RECURSIVE validateFieldsLoop_Backwards(_, _, _, _, _)
validateFieldsLoop_Backwards(h, self, obj, i, acc) ==
  IF i > Len(self.schema) THEN acc
  ELSE
  LET entry == self.schema[Len(self.schema) + 1 - i]
      result == validate(h, entry.validator, GetProp(obj, entry.key))
  IN
  validateFieldsLoop_Backwards(AfterValidate(h, entry.validator, GetProp(obj, entry.key)), self, obj, i + 1,
    IF result.success
    THEN IF result.data # Undefined
         THEN [acc EXCEPT !.validatedObj = SetProp(@, entry.key, result.data)]
         ELSE acc
    ELSE [acc EXCEPT !.errors =
            Append(@, "Field '" \o entry.key \o "': " \o join(result.errors, ", "))])

\* The for loop of validateFields over Object.entries(this.schema) from entry i on.
validateFieldsLoop(h, self, obj, i, acc) ==
  IF i > Len(self.schema) THEN acc
  ELSE
  LET key == self.schema[i].key
      result == validate(h, self.schema[i].validator, GetProp(obj, key))
  IN
  validateFieldsLoop(AfterValidate(h, self.schema[i].validator, GetProp(obj, key)), self, obj, i + 1,
    IF result.success
    THEN IF result.data # Undefined
         THEN [acc EXCEPT !.validatedObj = SetProp(@, key, result.data)]
         ELSE acc
    ELSE [acc EXCEPT !.errors =
            Append(@, "Field '" \o key \o "': " \o join(result.errors, ", "))])

validateFields(h, self, obj) ==
  LET acc == validateFieldsLoop(h, self, obj, 1, [validatedObj |-> <<>>, errors |-> <<>>]) IN
  IF Len(acc.errors) > 0
  THEN [success |-> FALSE, errors |-> acc.errors]
  ELSE createSuccess(Obj(acc.validatedObj, "fresh"))

\* ObjectValidator.validate rejecting undeclared keys once strict() was called.
ObjectValidate_StrictRejectsExtra(h, self, value) ==
  LET optionalResult == handleOptional(self, value) IN
  IF optionalResult # None THEN optionalResult[1]
  ELSE IF typeof(value) # "object" \/ isArray(value)
  THEN createError(self, "Value must be an object")
  ELSE IF /\ self.customMessage = Some("Object contains unexpected properties")
          /\ value.t = "object"
          /\ \E k \in DOMAIN value.fields : \A i \in 1..Len(self.schema) : self.schema[i].key # k
  THEN createError(self, "Object contains unexpected properties")
  ELSE
  LET fieldResult == validateFields(h, self, value) IN
  IF ~fieldResult.success THEN fieldResult
  ELSE createSuccess(fieldResult.data)

ObjectValidate(h, self, value) ==
  LET optionalResult == handleOptional(self, value) IN
  IF optionalResult # None THEN optionalResult[1]
  ELSE IF typeof(value) # "object" \/ isArray(value)
  THEN createError(self, "Value must be an object")
  ELSE
  LET fieldResult == validateFields(h, self, value) IN
  IF ~fieldResult.success THEN fieldResult
  ELSE createSuccess(fieldResult.data)

\* The loop of UnionValidator.validate keeping the last alternative that accepts.
RECURSIVE UnionLoop_LastMatch(_, _, _, _)
UnionLoop_LastMatch(h, self, value, i) ==
  IF i > Len(self.validators)
  THEN createError(self, "Value does not match any of the allowed types")
  ELSE
  LET result == validate(h, self.validators[i], value)
      later == UnionLoop_LastMatch(AfterValidate(h, self.validators[i], value), self, value, i + 1)
  IN
  IF later.success THEN later
  ELSE IF result.success THEN result
  ELSE later

\* The loop of UnionValidator.validate failing with what the last alternative
\* reported.
RECURSIVE UnionLoop_LastAlternativeErrors(_, _, _, _)
UnionLoop_LastAlternativeErrors(h, self, value, i) ==
  IF i > Len(self.validators)
  THEN createError(self, "Value does not match any of the allowed types")
  ELSE
  LET result == validate(h, self.validators[i], value) IN
  IF result.success \/ i = Len(self.validators) THEN result
  ELSE UnionLoop_LastAlternativeErrors(AfterValidate(h, self.validators[i], value), self, value, i + 1)

\* The loop of UnionValidator.validate failing with what the first alternative
\* reported.
RECURSIVE UnionLoop_FirstAlternativeErrors(_, _, _, _)
UnionLoop_FirstAlternativeErrors(h, self, value, i) ==
  IF i > Len(self.validators)
  THEN createError(self, "Value does not match any of the allowed types")
  ELSE
  LET result == validate(h, self.validators[i], value)
      later == UnionLoop_FirstAlternativeErrors(AfterValidate(h, self.validators[i], value), self, value, i + 1)
  IN
  IF result.success THEN result
  ELSE IF later.success THEN later
  ELSE result

\* The for loop of UnionValidator.validate from alternative i on.
UnionLoop(h, self, value, i) ==
  IF i > Len(self.validators)
  THEN createError(self, "Value does not match any of the allowed types")
  ELSE
  LET result == validate(h, self.validators[i], value) IN
  IF result.success THEN result
  ELSE UnionLoop(AfterValidate(h, self.validators[i], value), self, value, i + 1)

\* UnionValidate trying the alternatives before its own nullish check.
UnionValidate_AlternativesFirst(h, self, value) ==
  LET tried == UnionLoop(h, self, value, 1)
      optionalResult == handleOptional(self, value)
  IN
  IF tried.success THEN tried
  ELSE IF optionalResult # None THEN optionalResult[1]
  ELSE tried

UnionValidate(h, self, value) ==
  LET optionalResult == handleOptional(self, value) IN
  IF optionalResult # None THEN optionalResult[1]
  ELSE UnionLoop(h, self, value, 1)

\* validator.validate(value) on instance id: dispatch on the instance's class.
validate(h, id, value) ==
  LET self == h[id] IN
  CASE self.kind = "String" -> StringValidate(self, value)
    [] self.kind = "Number" -> NumberValidate(self, value)
    [] self.kind = "Boolean" -> BooleanValidate(self, value)
    [] self.kind = "Date" -> DateValidate(self, value)
    [] self.kind = "Literal" -> LiteralValidate(self, value)
    [] self.kind = "Array" -> ArrayValidate(h, self, value)
    [] self.kind = "Object" -> ObjectValidate(h, self, value)
    [] self.kind = "Union" -> UnionValidate(h, self, value)

\* The heap after the for loop of validateItems from index i on.
RECURSIVE AfterItemsLoop(_, _, _, _)
AfterItemsLoop(h, self, array, i) ==
  IF ~(i < Len(array)) THEN h
  ELSE AfterItemsLoop(AfterValidate(h, self.itemValidator, array[i + 1]), self, array, i + 1)

\* The heap after the for loop of validateFields from entry i on.
RECURSIVE AfterFieldsLoop(_, _, _, _)
AfterFieldsLoop(h, self, obj, i) ==
  IF i > Len(self.schema) THEN h
  ELSE AfterFieldsLoop(AfterValidate(h, self.schema[i].validator, GetProp(obj, self.schema[i].key)),
                       self, obj, i + 1)

\* The heap after the for loop of UnionValidator.validate from alternative i
\* on: the loop is left at the first alternative that accepts.
RECURSIVE AfterUnionLoop(_, _, _, _)
AfterUnionLoop(h, self, value, i) ==
  IF i > Len(self.validators) THEN h
  ELSE IF validate(h, self.validators[i], value).success
  THEN AfterValidate(h, self.validators[i], value)
  ELSE AfterUnionLoop(AfterValidate(h, self.validators[i], value), self, value, i + 1)

\* Some instance of h holds a RegExp with the g flag, the one kind of object
\* a validate call writes to.
HoldsStatefulRegex(h) ==
  \E i \in 1..Len(h) :
    h[i].kind = "String" /\ h[i].pattern # None /\ h[i].pattern[1].global

\* The heap validator.validate(value) on instance id leaves.
AfterValidate(h, id, value) ==
  LET self == h[id] IN
  CASE ~HoldsStatefulRegex(h) -> h
    [] self.kind = "String" -> [h EXCEPT ![id] = StringAfterValidate(self, value)]
    [] self.kind = "Array" ->
         IF \/ handleOptional(self, value) # None
            \/ ~isArray(value)
            \/ validateLength(Len(value.items), self.minLength, self.maxLength, "Array") # None
         THEN h
         ELSE AfterItemsLoop(h, self, value.items, 0)
    [] self.kind = "Object" ->
         IF handleOptional(self, value) # None \/ typeof(value) # "object" \/ isArray(value)
         THEN h
         ELSE AfterFieldsLoop(h, self, value, 1)
    [] self.kind = "Union" ->
         IF handleOptional(self, value) # None THEN h
         ELSE AfterUnionLoop(h, self, value, 1)
    [] OTHER -> h

(***************************************************************************)
(* Configuration methods: each mutates the instance and returns it.        *)
(***************************************************************************)
optional(self) == [self EXCEPT !.optional = TRUE]
withMessage(self, message) == [self EXCEPT !.customMessage = Some(message)]
min(self, value) == [self EXCEPT !.min = Some(value)]
max(self, value) == [self EXCEPT !.max = Some(value)]
minLength(self, length) == [self EXCEPT !.minLength = Some(length)]
maxLength(self, length) == [self EXCEPT !.maxLength = Some(length)]
pattern(self, regex) == [self EXCEPT !.pattern = Some(regex)]
email(self) == withMessage([self EXCEPT !.pattern = Some(Regex(EmailPattern, FALSE))], "Must be a valid email address")
url(self) == withMessage([self EXCEPT !.pattern = Some(Regex(UrlPattern, FALSE))], "Must be a valid URL")
integer(self) == [self EXCEPT !.integer = TRUE]
positive(self) == [self EXCEPT !.positive = TRUE]
dateMin(self, date) == [self EXCEPT !.minDate = Some(date)]
dateMax(self, date) == [self EXCEPT !.maxDate = Some(date)]
future(self, t) == withMessage([self EXCEPT !.minDate = Some(DateObj(TRUE, t, "fresh"))], "Date must be in the future")
past(self, t) == withMessage([self EXCEPT !.maxDate = Some(DateObj(TRUE, t, "fresh"))], "Date must be in the past")
\* nonEmpty setting the message and no minimum length.
nonEmpty_MessageOnly(self) == withMessage(self, "Array cannot be empty")
nonEmpty(self) == withMessage([self EXCEPT !.minLength = Some(1)], "Array cannot be empty")
StrictMessage == "Object contains unexpected properties"
strict(self) == withMessage(self, StrictMessage)

(***************************************************************************)
(* What the callers of the model pass in.                                  *)
(***************************************************************************)
Ids == 1..Len(heap)
LiteralValues == {Str("x"), Num(1), Bool(TRUE)}
FieldKeys == {"a", "b", "constructor"}
Messages == {"custom"}
Lengths == {1, 2}
Numbers == {Num(1), Num(2)}
Patterns == {Regex(DigitsPattern, FALSE)}
Dates == {DateObj(TRUE, 1, "input"), DateObj(TRUE, 2, "input")}

\* Field maps of at most two distinct keys, in enumeration order.
FieldMaps ==
  {<<>>}
  \cup {<<[key |-> k, validator |-> c]>> : k \in FieldKeys, c \in Ids}
  \cup {<<[key |-> k[1], validator |-> c[1]], [key |-> k[2], validator |-> c[2]]>> :
          k \in {p \in FieldKeys \X FieldKeys : p[1] # p[2]}, c \in Ids \X Ids}

\* Alternative lists of at most two validators.
Alternatives == {<<>>} \cup {<<c>> : c \in Ids} \cup {<<c[1], c[2]>> : c \in Ids \X Ids}

Primitives ==
  {Undefined, Null, Str("x"), Str("2023-01-01"), Num(1), NumHalf(1), NaN, Bool(TRUE),
   DateObj(TRUE, 1, "input"), DateObj(FALSE, 0, "input")}
Elements == {Str("x"), Num(1)}
RECURSIVE SeqsUpTo(_, _)
SeqsUpTo(S, n) ==
  IF n = 0 THEN {<<>>}
  ELSE LET shorter == SeqsUpTo(S, n - 1) IN
       shorter \cup {Append(q, x) : q \in {r \in shorter : Len(r) = n - 1}, x \in S}
ArrayInputs == {Arr(items, "input") : items \in SeqsUpTo(Elements, MaxItems)}
InputKeys == {"a", "b", "extra"}
ObjectInputs ==
  {Obj(f, "input") : f \in UNION {[K -> {Str("x"), Num(1)}] : K \in SUBSET InputKeys}}
Inputs == Primitives \cup ArrayInputs \cup ObjectInputs

(***************************************************************************)
(* The calls a program makes.  Everything is synchronous: a call is made   *)
(* when the previous one has returned.  ret is what the latest call        *)
(* returned: the instance (a constructor, or a configuration call          *)
(* returning this), or the ValidationResult of validate with its argument, *)
(* which the caller holds until it goes on (Return).                       *)
(***************************************************************************)
Init ==
  /\ heap = <<>>
  /\ now = 0
  /\ nconf = 0
  /\ ret = [op |-> "none"]

Ready == ret.op \notin {"call", "validate"}

Construct(self) ==
  /\ Ready
  /\ Len(heap) < MaxInstances
  /\ heap' = Append(heap, self)
  /\ ret' = [op |-> "ref", id |-> Len(heap) + 1]
  /\ UNCHANGED <<now, nconf>>

SchemaString == Construct(StringValidator)
SchemaNumber == Construct(NumberValidator)
SchemaBoolean == Construct(BooleanValidator)
SchemaDate == Construct(DateValidator)
SchemaArray == \E c \in Ids : Construct(ArrayValidator(c))
SchemaObject == \E schema \in FieldMaps : Construct(ObjectValidator(schema))
SchemaUnion == \E validators \in Alternatives : Construct(UnionValidator(validators))
SchemaLiteral == \E value \in LiteralValues : Construct(LiteralValidator(value))

Configure(id, self) ==
  /\ Ready
  /\ nconf < MaxConfigCalls
  /\ nconf' = nconf + 1
  /\ heap' = [heap EXCEPT ![id] = self]
  /\ ret' = [op |-> "ref", id |-> id]
  /\ UNCHANGED now

IsLengthConstrained(id) == heap[id].kind \in {"String", "Array"}

CallOptional == \E id \in Ids : Configure(id, optional(heap[id]))
CallWithMessage == \E id \in Ids, m \in Messages : Configure(id, withMessage(heap[id], m))
CallMin == \E id \in Ids, v \in Numbers : heap[id].kind = "Number" /\ Configure(id, min(heap[id], v))
CallMax == \E id \in Ids, v \in Numbers : heap[id].kind = "Number" /\ Configure(id, max(heap[id], v))
CallMinLength == \E id \in Ids, n \in Lengths : IsLengthConstrained(id) /\ Configure(id, minLength(heap[id], n))
CallMaxLength == \E id \in Ids, n \in Lengths : IsLengthConstrained(id) /\ Configure(id, maxLength(heap[id], n))
CallPattern == \E id \in Ids, re \in Patterns : heap[id].kind = "String" /\ Configure(id, pattern(heap[id], re))
CallEmail == \E id \in Ids : heap[id].kind = "String" /\ Configure(id, email(heap[id]))
CallUrl == \E id \in Ids : heap[id].kind = "String" /\ Configure(id, url(heap[id]))
CallInteger == \E id \in Ids : heap[id].kind = "Number" /\ Configure(id, integer(heap[id]))
CallPositive == \E id \in Ids : heap[id].kind = "Number" /\ Configure(id, positive(heap[id]))
CallDateMin == \E id \in Ids, d \in Dates : heap[id].kind = "Date" /\ Configure(id, dateMin(heap[id], d))
CallDateMax == \E id \in Ids, d \in Dates : heap[id].kind = "Date" /\ Configure(id, dateMax(heap[id], d))
CallFuture == \E id \in Ids : heap[id].kind = "Date" /\ Configure(id, future(heap[id], now))
CallPast == \E id \in Ids : heap[id].kind = "Date" /\ Configure(id, past(heap[id], now))
CallNonEmpty == \E id \in Ids : heap[id].kind = "Array" /\ Configure(id, nonEmpty(heap[id]))
CallStrict == \E id \in Ids : heap[id].kind = "Object" /\ Configure(id, strict(heap[id]))

Validate(id, value) ==
  /\ Ready
  /\ ret' = [op |-> "validate", id |-> id, input |-> value, result |-> validate(heap, id, value)]
  /\ heap' = AfterValidate(heap, id, value)
  /\ UNCHANGED <<now, nconf>>

CallValidate == \E id \in Ids, value \in Inputs : Validate(id, value)

Return ==
  /\ ret.op = "validate"
  /\ ret' = [op |-> "none"]
  /\ UNCHANGED <<heap, now, nconf>>

Next ==
  \/ SchemaString \/ SchemaNumber \/ SchemaBoolean \/ SchemaDate
  \/ SchemaArray \/ SchemaObject \/ SchemaUnion \/ SchemaLiteral
  \/ CallOptional \/ CallWithMessage
  \/ CallMin \/ CallMax \/ CallMinLength \/ CallMaxLength
  \/ CallPattern \/ CallEmail \/ CallUrl \/ CallInteger \/ CallPositive
  \/ CallDateMin \/ CallDateMax \/ CallFuture \/ CallPast
  \/ CallNonEmpty \/ CallStrict
  \/ CallValidate \/ Return

Spec == Init /\ [][Next]_vars

(***************************************************************************)
(* Programs that have built a schema and go on configuring and running it. *)
(* Each starts from the heaps a few facade call sequences leave, children  *)
(* first.                                                                  *)
(***************************************************************************)
InitFrom(heaps) ==
  /\ heap \in heaps
  /\ now = 0
  /\ nconf = 0
  /\ ret = [op |-> "none"]

Field(key, validator) == [key |-> key, validator |-> validator]

\* One instance of every kind.
KindsHeaps ==
  {<<StringValidator, NumberValidator, BooleanValidator, DateValidator,
     LiteralValidator(Str("x")), ArrayValidator(1),
     ObjectValidator(<<Field("a", 1), Field("b", 2)>>), UnionValidator(<<4, 1>>)>>}

NextKinds ==
  \/ CallOptional \/ CallWithMessage
  \/ CallMin \/ CallMax \/ CallMinLength \/ CallMaxLength
  \/ CallPattern \/ CallEmail \/ CallUrl \/ CallInteger \/ CallPositive
  \/ CallDateMin \/ CallDateMax \/ CallFuture \/ CallPast
  \/ CallNonEmpty \/ CallStrict
  \/ CallValidate \/ Return

SpecKinds == InitFrom(KindsHeaps) /\ [][NextKinds]_vars

\* Schema.array(...) over a leaf, over an object of two fields, over an array.
ArrayHeaps ==
  {<<StringValidator, ArrayValidator(1)>>,
   <<DateValidator, ArrayValidator(1)>>,
   <<StringValidator, NumberValidator,
     ObjectValidator(<<Field("a", 1), Field("b", 2)>>), ArrayValidator(3)>>,
   <<StringValidator, ArrayValidator(1), ArrayValidator(2)>>}

FlatArrays == {Arr(items, "input") : items \in SeqsUpTo({Str("x"), Num(1)}, MaxFlatItems)}
NullArrays == {Arr(items, "input") : items \in SeqsUpTo({Str("x"), Null, Undefined}, MaxItems)}
ShortArrays == {Arr(items, "input") : items \in SeqsUpTo({Str("x"), Num(1)}, MaxItems)}
SmallObjects ==
  {Obj(f, "input") : f \in UNION {[K -> {Str("x"), Num(1)}] : K \in SUBSET {"a", "b"}}}
NestedElements ==
  {Obj([a |-> Str("x"), b |-> Num(1)], "input"),
   Obj([a |-> Num(1), b |-> Str("x")], "input"),
   Obj([a |-> Num(1), b |-> Num(1)], "input"),
   Arr(<<Str("x")>>, "input"),
   Arr(<<Num(1), Num(1)>>, "input")}
NestedArrays == {Arr(items, "input") : items \in SeqsUpTo(NestedElements, 2)}
ArrayProgramInputs ==
  {Undefined, Null, Str("x"), Str("2023-01-01"), Obj(<<>>, "input")}
  \cup FlatArrays \cup NullArrays \cup NestedArrays
  \cup {Arr(<<Str("2023-01-01"), Str("x")>>, "input"), Arr(<<Str("2023-01-01"), Null>>, "input")}

ValidateArrayProgram == \E id \in Ids, value \in ArrayProgramInputs : Validate(id, value)

NextArray ==
  \/ CallOptional \/ CallWithMessage
  \/ CallMinLength \/ CallMaxLength \/ CallNonEmpty
  \/ ValidateArrayProgram \/ Return

SpecArray == InitFrom(ArrayHeaps) /\ [][NextArray]_vars

\* Schema.object(...) over leaves, over an array, over an object, and with a
\* field named like a member of Object.prototype.
ObjectHeaps ==
  {<<StringValidator, NumberValidator, ObjectValidator(<<Field("a", 1), Field("b", 2)>>)>>,
   <<StringValidator, ArrayValidator(1), ObjectValidator(<<Field("b", 1), Field("a", 2)>>)>>,
   <<StringValidator, NumberValidator,
     ObjectValidator(<<Field("a", 1), Field("b", 2)>>),
     ObjectValidator(<<Field("a", 3), Field("b", 1)>>)>>,
   <<StringValidator, ObjectValidator(<<Field("a", 1), Field("constructor", 1)>>)>>}

FieldValues == {Str("x"), Num(1), Null, Undefined}
FlatObjects ==
  {Obj(f, "input") : f \in UNION {[K -> FieldValues] : K \in SUBSET InputKeys}}
NestedObjects ==
  {Obj(f, "input") :
     f \in {[k \in {"a"} |-> v] : v \in ShortArrays \cup SmallObjects}
           \cup {[a |-> v, b |-> w] : v \in ShortArrays \cup SmallObjects, w \in {Str("x"), Num(1)}}}
ObjectProgramInputs ==
  {Undefined, Null, Str("x"), Arr(<<>>, "input"), DateObj(TRUE, 1, "input")}
  \cup FlatObjects \cup NestedObjects \cup ShortArrays

ValidateObjectProgram == \E id \in Ids, value \in ObjectProgramInputs : Validate(id, value)

NextObject ==
  \/ CallOptional \/ CallWithMessage \/ CallStrict
  \/ ValidateObjectProgram \/ Return

SpecObject == InitFrom(ObjectHeaps) /\ [][NextObject]_vars

\* Schema.union(...) over two leaves in both orders, over no alternative, and
\* over three leaves.
UnionLeaves == {StringValidator, NumberValidator, DateValidator, LiteralValidator(Str("x"))}
UnionHeaps ==
  {<<l[1], l[2], UnionValidator(<<1, 2>>), UnionValidator(<<2, 1>>), UnionValidator(<<>>)>> :
     l \in UnionLeaves \X UnionLeaves}
  \cup {<<BooleanValidator, NumberValidator, DateValidator, UnionValidator(<<1, 2, 3>>)>>}

UnionProgramInputs == Primitives \cup {Str("ab"), Num(2), Arr(<<>>, "input"), Obj(<<>>, "input")}

ValidateUnionProgram == \E id \in Ids, value \in UnionProgramInputs : Validate(id, value)

NextUnion ==
  \/ CallOptional \/ CallWithMessage
  \/ ValidateUnionProgram \/ Return

SpecUnion == InitFrom(UnionHeaps) /\ [][NextUnion]_vars

\* Schema.literal(x) for a string, numbers, a boolean and NaN.
LiteralProgramValues == {Str("42"), Num(42), Num(1), Bool(TRUE), Bool(FALSE), NaN}
LiteralHeaps == {<<LiteralValidator(x)>> : x \in LiteralProgramValues}

LiteralProgramInputs ==
  {Undefined, Null, Str("42"), Str("1"), Str("true"), Num(42), Num(1), Num(0), NaN,
   Bool(TRUE), Bool(FALSE)}

ValidateLiteralProgram == \E id \in Ids, value \in LiteralProgramInputs : Validate(id, value)

NextLiteral ==
  \/ CallOptional \/ CallWithMessage
  \/ ValidateLiteralProgram \/ Return

SpecLiteral == InitFrom(LiteralHeaps) /\ [][NextLiteral]_vars

\* Schema.number() after every combination of min, max, integer, positive.
NumberBounds == {None, Some(Num(1)), Some(Num(2)), Some(NumHalf(1))}
NumberHeaps ==
  {<<[NumberValidator EXCEPT !.min = a, !.max = b, !.integer = i, !.positive = p]>> :
     a \in NumberBounds, b \in NumberBounds, i \in BOOLEAN, p \in BOOLEAN}

NumberProgramInputs ==
  {Undefined, Str("1"), NaN, Num(-5), NumHalf(-1), Num(0), NumHalf(0), Num(1), NumHalf(1),
   Num(2), NumHalf(2), Num(3)}

ValidateNumberProgram == \E id \in Ids, value \in NumberProgramInputs : Validate(id, value)

NextNumber ==
  \/ CallOptional \/ CallWithMessage
  \/ CallMin \/ CallMax \/ CallInteger \/ CallPositive
  \/ ValidateNumberProgram \/ Return

SpecNumber == InitFrom(NumberHeaps) /\ [][NextNumber]_vars

\* Schema.string() after every combination of minLength, maxLength, pattern.
StringLengths == {None, Some(1), Some(2), Some(3)}
StringHeaps ==
  {<<[StringValidator EXCEPT !.minLength = a, !.maxLength = b, !.pattern = re]>> :
     a \in StringLengths, b \in StringLengths, re \in {None, Some(Regex(DigitsPattern, FALSE))}}

StringProgramInputs ==
  {Undefined, Num(1), Bool(TRUE), Arr(<<>>, "input"),
   Str(""), Str("1"), Str("x"), Str("42"), Str("ab"), Str("123"), Str("abc"), Str("1234")}

ValidateStringProgram == \E id \in Ids, value \in StringProgramInputs : Validate(id, value)

NextString ==
  \/ CallOptional \/ CallWithMessage
  \/ CallMinLength \/ CallMaxLength \/ CallPattern \/ CallEmail \/ CallUrl
  \/ ValidateStringProgram \/ Return

SpecString == InitFrom(StringHeaps) /\ [][NextString]_vars

\* One instance of every kind, the constrained kinds with a constraint set,
\* configured with messages, the empty one included.
MessageHeaps ==
  {<<minLength(StringValidator, 2), min(NumberValidator, Num(1)), BooleanValidator,
     DateValidator, LiteralValidator(Str("x")), maxLength(ArrayValidator(1), 2),
     ObjectValidator(<<Field("a", 1), Field("b", 2)>>), UnionValidator(<<2, 3>>)>>}

MessageProgramInputs ==
  {Undefined, Str("x"), Str("ab"), Num(0), Num(1), Bool(TRUE),
   DateObj(TRUE, -1, "input"), DateObj(TRUE, 1, "input"), DateObj(FALSE, 0, "input"),
   Arr(<<>>, "input"), Arr(<<Str("ab")>>, "input"), Arr(<<Str("x"), Num(1)>>, "input"),
   Arr(<<Str("ab"), Str("ab"), Str("ab")>>, "input"),
   Obj(<<>>, "input"), Obj([a |-> Str("ab"), b |-> Num(1)], "input"),
   Obj([a |-> Num(1), b |-> Str("x")], "input")}

CallWithEmptyMessage == \E id \in Ids : Configure(id, withMessage(heap[id], ""))

ValidateMessageProgram == \E id \in Ids, value \in MessageProgramInputs : Validate(id, value)

NextMessage ==
  \/ CallOptional \/ CallWithMessage \/ CallWithEmptyMessage
  \/ CallEmail \/ CallUrl \/ CallFuture \/ CallPast \/ CallNonEmpty \/ CallStrict
  \/ ValidateMessageProgram \/ Return

SpecMessage == InitFrom(MessageHeaps) /\ [][NextMessage]_vars

\* Validators called again and again, a String validator alone and shared
\* as a child, given a pattern with or without the g flag.
RepeatHeaps ==
  {<<StringValidator>>,
   <<StringValidator, ArrayValidator(1)>>,
   <<StringValidator, NumberValidator, ObjectValidator(<<Field("a", 1), Field("b", 1)>>)>>,
   <<StringValidator, NumberValidator, UnionValidator(<<1, 2>>)>>,
   <<NumberValidator, BooleanValidator, DateValidator, LiteralValidator(Str("1")),
     ArrayValidator(1), ObjectValidator(<<Field("a", 1), Field("b", 2)>>),
     UnionValidator(<<3, 1>>)>>}

StatefulPatterns == {Regex(DigitsPattern, TRUE)}

RepeatProgramInputs ==
  {Undefined, Num(1), Bool(TRUE), Str("1"), Str("42"), Str("x"), Str("2023-01-01"),
   DateObj(TRUE, 1, "input"),
   Arr(<<>>, "input"), Arr(<<Str("1"), Str("1")>>, "input"), Arr(<<Num(1), Num(1)>>, "input"),
   Arr(<<Str("1"), Str("x"), Str("42")>>, "input"),
   Obj([a |-> Str("1")], "input"), Obj([a |-> Str("1"), b |-> Str("1")], "input"),
   Obj([a |-> Num(1), b |-> Bool(TRUE)], "input")}

CallStatefulPattern ==
  \E id \in Ids, re \in StatefulPatterns :
    heap[id].kind = "String" /\ Configure(id, pattern(heap[id], re))

ValidateRepeatProgram == \E id \in Ids, value \in RepeatProgramInputs : Validate(id, value)

NextRepeat ==
  \/ CallOptional \/ CallWithMessage
  \/ CallPattern \/ CallStatefulPattern
  \/ ValidateRepeatProgram \/ Return

SpecRepeat == InitFrom(RepeatHeaps) /\ [][NextRepeat]_vars

\* Schema.date() after every combination of min and max.
DateBounds == {None, Some(DateObj(TRUE, 1, "input")), Some(DateObj(TRUE, 2, "input"))}
DateHeaps ==
  {<<[DateValidator EXCEPT !.minDate = a, !.maxDate = b]>> : a \in DateBounds, b \in DateBounds}

DateProgramInputs ==
  {Undefined, Null, Bool(TRUE), Func, Obj(<<>>, "input"), Arr(<<>>, "input"),
   DateObj(TRUE, 0, "input"), DateObj(TRUE, 1, "input"), DateObj(TRUE, 2, "input"),
   DateObj(TRUE, 3, "input"), DateObj(FALSE, 0, "input"),
   Str("2023-01-01"), Str("1970-01-01"), Str("x"), Num(1), Num(3), NaN}

ValidateDateProgram == \E id \in Ids, value \in DateProgramInputs : Validate(id, value)

NextDate ==
  \/ CallOptional \/ CallWithMessage
  \/ CallDateMin \/ CallDateMax \/ CallFuture \/ CallPast
  \/ ValidateDateProgram \/ Return

SpecDate == InitFrom(DateHeaps) /\ [][NextDate]_vars

\* A validate call seen from its caller: the call is made and runs
\* (BeginValidate), and control comes back with the ValidationResult
\* (EndValidate); nothing else runs in between.  The tree holds every kind, a union of no
\* alternative, a Date validator whose bound is an invalid Date, a field
\* named like a member of Object.prototype, four levels of nesting.
TotalHeaps ==
  {<<minLength(pattern(StringValidator, Regex(DigitsPattern, FALSE)), 1),
     integer(min(NumberValidator, Num(1))),
     BooleanValidator,
     dateMax(dateMin(DateValidator, DateObj(FALSE, 0, "input")), DateObj(TRUE, 2, "input")),
     LiteralValidator(Str("x")),
     ArrayValidator(4),
     ObjectValidator(<<Field("a", 1), Field("constructor", 2), Field("b", 6)>>),
     UnionValidator(<<>>),
     UnionValidator(<<3, 7, 8>>),
     maxLength(ArrayValidator(9), 2),
     dateMax(DateValidator, DateObj(FALSE, 0, "input"))>>}

TotalLeafInputs ==
  {Undefined, Null, Func, Bool(TRUE), Str(""), Str("1"), Str("x"), Str("2023-01-01"),
   Num(1), NumHalf(1), NaN, DateObj(TRUE, 3, "input"), DateObj(FALSE, 0, "input")}
TotalArrayInputs ==
  {Arr(<<>>, "input"), Arr(<<Str("2023-01-01"), Num(3), Null>>, "input"),
   Arr(<<DateObj(TRUE, 1, "input")>>, "input")}
TotalObjectInputs ==
  {Obj(<<>>, "input")}
  \cup {Obj([a |-> Str("1"), constructor |-> Num(1), b |-> v], "input") : v \in TotalArrayInputs}
  \cup {Obj([a |-> Num(1), b |-> Str("x")], "input")}
TotalProgramInputs ==
  TotalLeafInputs \cup TotalArrayInputs \cup TotalObjectInputs
  \cup {Arr(<<v, w>>, "input") : v \in {Bool(TRUE), Str("x")}, w \in TotalObjectInputs}
  \cup {Arr(<<Null, Null, Null>>, "input")}

BeginValidate ==
  \E id \in Ids, value \in TotalProgramInputs :
    /\ Ready
    /\ ret' = [op |-> "call", id |-> id, input |-> value, result |-> validate(heap, id, value)]
    /\ heap' = AfterValidate(heap, id, value)
    /\ UNCHANGED <<now, nconf>>

EndValidate ==
  /\ ret.op = "call"
  /\ ret' = [ret EXCEPT !.op = "validate"]
  /\ UNCHANGED <<heap, now, nconf>>

NextTotal ==
  \/ CallOptional \/ CallWithMessage
  \/ BeginValidate \/ EndValidate \/ Return

\* validate is synchronous: a call that was made returns.
SpecTotal == InitFrom(TotalHeaps) /\ [][NextTotal]_vars /\ WF_vars(EndValidate)

\* Time passes between the calls of a program holding one Schema.date().
Tick ==
  /\ Ready
  /\ now < MaxNow
  /\ now' = now + 1
  /\ UNCHANGED <<heap, nconf, ret>>

ClockHeaps == {<<DateValidator>>}

ClockProgramInputs ==
  {Undefined, Str("2023-01-01"), Str("x"), DateObj(FALSE, 0, "input")}
  \cup {DateObj(TRUE, t, "input") : t \in 0..(MaxNow + 1)}

ValidateClockProgram == \E id \in Ids, value \in ClockProgramInputs : Validate(id, value)

NextClock == Tick \/ CallFuture \/ CallPast \/ ValidateClockProgram \/ Return

SpecClock == InitFrom(ClockHeaps) /\ [][NextClock]_vars

\* Chains of configuration calls: every instance after one call of a chain,
\* the program going on with the next calls.
StringChains ==
  {StringValidator, optional(StringValidator), withMessage(StringValidator, "custom"),
   withMessage(StringValidator, ""), email(StringValidator), url(StringValidator),
   pattern(StringValidator, Regex(DigitsPattern, FALSE)), minLength(StringValidator, 2)}
DateChains ==
  {DateValidator, withMessage(DateValidator, "custom"), future(DateValidator, 0),
   past(DateValidator, 0), dateMin(DateValidator, DateObj(TRUE, 1, "input")),
   dateMax(DateValidator, DateObj(TRUE, 1, "input"))}
ArrayChains ==
  {ArrayValidator(1), withMessage(ArrayValidator(1), "custom"), nonEmpty(ArrayValidator(1)),
   minLength(ArrayValidator(1), 2)}
ObjectChains ==
  {ObjectValidator(<<Field("a", 1)>>), withMessage(ObjectValidator(<<Field("a", 1)>>), "custom"),
   strict(ObjectValidator(<<Field("a", 1)>>))}
ChainHeaps ==
  {<<s, DateValidator, ArrayValidator(1), ObjectValidator(<<Field("a", 1)>>)>> : s \in StringChains}
  \cup {<<StringValidator, d, ArrayValidator(1), ObjectValidator(<<Field("a", 1)>>)>> : d \in DateChains}
  \cup {<<StringValidator, DateValidator, a, ObjectValidator(<<Field("a", 1)>>)>> : a \in ArrayChains}
  \cup {<<StringValidator, DateValidator, ArrayValidator(1), o>> : o \in ObjectChains}

ChainProgramInputs ==
  {Undefined, Num(123), Str("x"), Str("12"), Str("a@b.c"), Str("http://a"),
   DateObj(TRUE, -1, "input"), DateObj(TRUE, 2, "input"),
   Arr(<<>>, "input"), Arr(<<Str("x")>>, "input"), Obj(<<>>, "input")}

ValidateChainProgram == \E id \in Ids, value \in ChainProgramInputs : Validate(id, value)

NextChain ==
  \/ CallOptional \/ CallWithMessage \/ CallWithEmptyMessage
  \/ CallMinLength \/ CallPattern \/ CallEmail \/ CallUrl
  \/ CallDateMin \/ CallDateMax \/ CallFuture \/ CallPast
  \/ CallNonEmpty \/ CallStrict
  \/ ValidateChainProgram \/ Return

SpecChain == InitFrom(ChainHeaps) /\ [][NextChain]_vars

\* One Number validator handed to an array, an object, a union and a second
\* array, and configured after they were built.
ShareHeaps ==
  {<<NumberValidator, ArrayValidator(1), ObjectValidator(<<Field("a", 1)>>),
     UnionValidator(<<1>>), ArrayValidator(1)>>}

ShareValues == {Null, Str("x"), Num(0), Num(1), NumHalf(1), Num(2), Num(3)}
ShareProgramInputs ==
  ShareValues
  \cup {Arr(<<>>, "input"), Obj(<<>>, "input")}
  \cup {Arr(<<x>>, "input") : x \in ShareValues}
  \cup {Arr(<<x, y>>, "input") : x \in {Num(1), Num(2)}, y \in ShareValues}
  \cup {Obj([a |-> x], "input") : x \in ShareValues}

ValidateShareProgram == \E id \in Ids, value \in ShareProgramInputs : Validate(id, value)

NextShare ==
  \/ CallOptional \/ CallWithMessage
  \/ CallMin \/ CallMax \/ CallInteger \/ CallPositive
  \/ ValidateShareProgram \/ Return

SpecShare == InitFrom(ShareHeaps) /\ [][NextShare]_vars

(***************************************************************************)
(* Properties.                                                             *)
(***************************************************************************)
Returned == ret.op = "validate"
Failure(errors) == [success |-> FALSE, errors |-> errors]
Success(data) == [success |-> TRUE, data |-> data]

\* C1: whatever its kind, a validator with no custom message fails null and
\* undefined with the single error "Value is required" when optional() was
\* never called, and accepts both with data = undefined when it was.
C1_NullishShortCircuit ==
  (Returned /\ isNullish(ret.input) /\ heap[ret.id].customMessage = None)
    => ret.result = IF heap[ret.id].optional
                    THEN Success(Undefined)
                    ELSE Failure(<<"Value is required">>)

C1_Witness ==
  /\ Returned
  /\ ret.input = Null
  /\ heap[ret.id].kind = "Object"
  /\ heap[ret.id].optional
  /\ heap[ret.id].customMessage = None
  /\ ret.result = Success(Undefined)

\* C2: a failed result carries a non-empty sequence of strings as errors and
\* no data; a successful result carries data and no errors.
WellFormedResult(r) ==
  IF r.success
  THEN DOMAIN r = {"success", "data"}
  ELSE /\ DOMAIN r = {"success", "errors"}
       /\ Len(r.errors) > 0
       /\ \A i \in 1..Len(r.errors) : r.errors[i] \in STRING /\ Len(r.errors[i]) > 0

C2_ResultShape == Returned => WellFormedResult(ret.result)

C2_Witness ==
  /\ Returned
  /\ heap[ret.id].kind = "Array"
  /\ ~ret.result.success
  /\ Len(ret.result.errors) = 2

HasPrefix(s, p) == Len(s) >= Len(p) /\ SubSeq(s, 1, Len(p)) = p
EntriesFor(errors, p) == {j \in 1..Len(errors) : HasPrefix(errors[j], p)}

\* validate has returned for an Array validator given an array that passes
\* the length check.
ItemsChecked ==
  /\ Returned
  /\ heap[ret.id].kind = "Array"
  /\ isArray(ret.input)
  /\ validateLength(Len(ret.input.items), heap[ret.id].minLength, heap[ret.id].maxLength, "Array") = None

ItemPrefix(i) == "Item at index " \o ToString(i) \o ": "
\* What the child validator returns for element i (0-based) of the input.
ItemResult(i) == validate(heap, heap[ret.id].itemValidator, ret.input.items[i + 1])
FailingItems == {i \in 0..(Len(ret.input.items) - 1) : ~ItemResult(i).success}

\* C3: an array that passes the length check fails iff some element fails,
\* and its errors hold an entry prefixed "Item at index i: " exactly for the
\* failing indices i, one entry per failing element.
C3_ArrayChecksEveryIndex ==
  ItemsChecked =>
    /\ ret.result.success <=> FailingItems = {}
    /\ ~ret.result.success =>
         /\ \A i \in 0..(Len(ret.input.items) - 1) :
              EntriesFor(ret.result.errors, ItemPrefix(i)) # {} <=> i \in FailingItems
         /\ Len(ret.result.errors) = Cardinality(FailingItems)

C3_Witness ==
  /\ ItemsChecked
  /\ Len(ret.input.items) = 4
  /\ FailingItems = {1, 3}
  /\ Len(ret.result.errors) = 2

\* C4 as claimed: an element whose child fails with k errors has k entries.
C4_EntryPerChildError ==
  ItemsChecked =>
    \A i \in FailingItems :
      Cardinality(EntriesFor(ret.result.errors, ItemPrefix(i))) = Len(ItemResult(i).errors)

\* C4 as amended: an element whose child fails with k errors has exactly one
\* entry, "Item at index i: " followed by the child's k errors joined by ", ".
C4_OneJoinedEntryPerElement ==
  ItemsChecked =>
    \A i \in FailingItems :
      \E j \in 1..Len(ret.result.errors) :
        /\ EntriesFor(ret.result.errors, ItemPrefix(i)) = {j}
        /\ ret.result.errors[j] = ItemPrefix(i) \o join(ItemResult(i).errors, ", ")

C4_Witness ==
  /\ ItemsChecked
  /\ heap[heap[ret.id].itemValidator].kind = "Object"
  /\ \E i \in FailingItems : Len(ItemResult(i).errors) = 2

\* validate has returned for an Object validator given a non-array object.
FieldsChecked ==
  /\ Returned
  /\ heap[ret.id].kind = "Object"
  /\ ~isNullish(ret.input)
  /\ typeof(ret.input) = "object"
  /\ ~isArray(ret.input)

DeclaredFields == 1..Len(heap[ret.id].schema)
FieldKey(i) == heap[ret.id].schema[i].key
FieldChild(i) == heap[heap[ret.id].schema[i].validator]
OwnKeys(v) == IF v.t = "object" THEN DOMAIN v.fields ELSE {}
\* What the child validator returns for the value the code reads for field i.
FieldResult(i) == validate(heap, heap[ret.id].schema[i].validator, GetProp(ret.input, FieldKey(i)))
\* The value of field i when an absent key counts as undefined.
OwnOrUndefined(i) ==
  IF FieldKey(i) \in OwnKeys(ret.input) THEN ret.input.fields[FieldKey(i)] ELSE Undefined
FailingOwnFields ==
  {i \in DeclaredFields : ~validate(heap, heap[ret.id].schema[i].validator, OwnOrUndefined(i)).success}
FailingFields == {i \in DeclaredFields : ~FieldResult(i).success}
FieldPrefix(i) == "Field '" \o FieldKey(i) \o "'"

\* C5: every declared field is validated on input[name], an absent key as
\* undefined (a missing required field gives "Field '<name>': Value is
\* required"); the result fails iff some field fails, and its errors hold an
\* entry prefixed "Field '<name>'" exactly for the failing fields.
C5_ObjectChecksEveryField ==
  FieldsChecked =>
    /\ ret.result.success <=> FailingOwnFields = {}
    /\ ~ret.result.success =>
         \A i \in DeclaredFields :
           EntriesFor(ret.result.errors, FieldPrefix(i)) # {} <=> i \in FailingOwnFields
    /\ \A i \in DeclaredFields :
         (/\ FieldKey(i) \notin OwnKeys(ret.input)
          /\ ~FieldChild(i).optional
          /\ FieldChild(i).customMessage = None)
           => /\ ~ret.result.success
              /\ \E j \in 1..Len(ret.result.errors) :
                   ret.result.errors[j] = FieldPrefix(i) \o ": Value is required"

\* C5 restricted to schemas none of whose field names is a member of
\* Object.prototype: there obj[key] of an absent key is undefined.
C5_HoldsForOrdinaryFieldNames ==
  (FieldsChecked /\ \A i \in DeclaredFields : FieldKey(i) \notin ObjectPrototypeKeys)
    => C5_ObjectChecksEveryField

\* C6 as claimed: a field whose child fails with k errors has k entries.
C6_EntryPerChildError ==
  FieldsChecked =>
    \A i \in FailingFields :
      Cardinality(EntriesFor(ret.result.errors, FieldPrefix(i) \o ": ")) = Len(FieldResult(i).errors)

\* C6 as amended: a field whose child fails with k errors has exactly one
\* entry, "Field '<name>': " followed by the child's k errors joined by ", ".
C6_OneJoinedEntryPerField ==
  FieldsChecked =>
    \A i \in FailingFields :
      \E j \in 1..Len(ret.result.errors) :
        /\ EntriesFor(ret.result.errors, FieldPrefix(i) \o ": ") = {j}
        /\ ret.result.errors[j] = FieldPrefix(i) \o ": " \o join(FieldResult(i).errors, ", ")

C6_Witness ==
  /\ FieldsChecked
  /\ \E i \in FailingFields : Len(FieldResult(i).errors) = 2 /\ FieldChild(i).kind = "Object"

\* C7: on success the data is a new object whose keys are exactly the
\* declared fields with defined validated data: no undeclared key of the
\* input is copied and an optional field given absent, undefined or null is
\* left out.
C7_OutputKeys ==
  (FieldsChecked /\ ret.result.success) =>
    /\ ret.result.data.t = "object"
    /\ ret.result.data.ref = "fresh"
    /\ DOMAIN ret.result.data.fields =
         {FieldKey(i) : i \in {k \in DeclaredFields : FieldResult(k).data # Undefined}}
    /\ \A i \in DeclaredFields :
         /\ FieldResult(i).data # Undefined
              => ret.result.data.fields[FieldKey(i)] = FieldResult(i).data
         /\ (FieldChild(i).optional /\ isNullish(OwnOrUndefined(i)))
              => FieldKey(i) \notin DOMAIN ret.result.data.fields

C7_Witness ==
  /\ FieldsChecked
  /\ ret.result.success
  /\ ret.input.t = "object"
  /\ "extra" \in DOMAIN ret.input.fields
  /\ \E i \in DeclaredFields :
       /\ FieldChild(i).optional
       /\ FieldKey(i) \in DOMAIN ret.input.fields
       /\ ret.input.fields[FieldKey(i)] = Null
  /\ DOMAIN ret.result.data.fields = {"a"}

\* C8: strict() changes neither which inputs an Object validator accepts nor
\* the data it returns; only the text of the failures the object validator
\* itself produces (presence, type) differs.
StrictVariant == [heap EXCEPT ![ret.id] = strict(heap[ret.id])]
C9_StrictRejectsExtraKeys ==
  (/\ FieldsChecked
   /\ heap[ret.id].customMessage = Some(StrictMessage)
   /\ \E k \in OwnKeys(ret.input) : \A i \in DeclaredFields : FieldKey(i) # k
   /\ FailingFields = {})
    => ret.result = Failure(<<StrictMessage>>)

\* C10: for a non-nullish input a Union returns, as it is, the success result
\* of the first alternative that accepts the input.
UnionTried == Returned /\ heap[ret.id].kind = "Union" /\ ~isNullish(ret.input)
AlternativeResult(k) == validate(heap, heap[ret.id].validators[k], ret.input)
C10_UnionFirstMatch ==
  UnionTried =>
    \A k \in 1..Len(heap[ret.id].validators) :
      (AlternativeResult(k).success /\ \A j \in 1..(k - 1) : ~AlternativeResult(j).success)
        => ret.result = AlternativeResult(k)

C10_Witness ==
  /\ UnionTried
  /\ Len(heap[ret.id].validators) = 2
  /\ heap[heap[ret.id].validators[1]].kind = "Date"
  /\ heap[heap[ret.id].validators[2]].kind = "String"
  /\ AlternativeResult(1).success
  /\ AlternativeResult(2).success
  /\ ret.result.data.t = "date"

UnionDefaultMessage == "Value does not match any of the allowed types"
NoAlternativeAccepts ==
  /\ UnionTried
  /\ \A k \in 1..Len(heap[ret.id].validators) : ~AlternativeResult(k).success

\* C11: when no alternative of a Union accepts a non-nullish input, the result
\* is a failure with exactly one error, "Value does not match any of the
\* allowed types" or the union's custom message, whatever the alternatives
\* reported and however many there are, none included.
C11_UnionGenericFailure ==
  NoAlternativeAccepts =>
    LET own == IF heap[ret.id].customMessage # None
               THEN heap[ret.id].customMessage[1]
               ELSE UnionDefaultMessage
    IN
    /\ ret.result = Failure(<<own>>)
    /\ \A k \in 1..Len(heap[ret.id].validators) :
         \A j \in 1..Len(AlternativeResult(k).errors) :
           AlternativeResult(k).errors[j] # own
             => \A e \in 1..Len(ret.result.errors) :
                  ret.result.errors[e] # AlternativeResult(k).errors[j]

C11_Witness ==
  /\ NoAlternativeAccepts
  /\ Len(heap[ret.id].validators) = 3
  /\ heap[ret.id].customMessage = None
  /\ AlternativeResult(1).errors # AlternativeResult(2).errors
  /\ ret.result = Failure(<<UnionDefaultMessage>>)

\* The union called, with its alternatives rearranged by the permutation p.
Rearranged(p) ==
  [heap EXCEPT ![ret.id].validators = [i \in 1..Len(@) |-> @[p[i]]]]

\* C12: for every permutation of a Union's alternatives and every input, the
\* rearranged union succeeds iff the union does, and when they fail they
\* return equal results.
C12_UnionOrderIrrelevantOnFailure ==
  (Returned /\ heap[ret.id].kind = "Union") =>
    \A p \in Permutations(1..Len(heap[ret.id].validators)) :
      LET other == validate(Rearranged(p), ret.id, ret.input) IN
      /\ other.success = ret.result.success
      /\ ~other.success => other = ret.result

C12_Witness ==
  /\ NoAlternativeAccepts
  /\ Len(heap[ret.id].validators) = 2
  /\ AlternativeResult(1).errors # AlternativeResult(2).errors
  /\ \E p \in Permutations(1..2) :
       /\ p[1] = 2
       /\ validate(Rearranged(p), ret.id, ret.input) = ret.result

\* Order decides which data comes back when several alternatives accept.
C12_OrderSelectsData ==
  /\ UnionTried
  /\ ret.result.success
  /\ \E p \in Permutations(1..Len(heap[ret.id].validators)) :
       LET other == validate(Rearranged(p), ret.id, ret.input) IN
       other.success /\ other.data # ret.result.data

\* The single error a validator with no custom message reports, or its
\* custom message.
OwnError(message) ==
  Failure(<<IF heap[ret.id].customMessage # None THEN heap[ret.id].customMessage[1] ELSE message>>)

LiteralTried == Returned /\ heap[ret.id].kind = "Literal" /\ ~isNullish(ret.input)
\* Same type and same value (NaN equals nothing).
SameTypeAndValue(v, x) == v = x /\ ~(v.t = "number" /\ v.nan)
LiteralText(x) ==
  CASE x = Str("42") -> "42"
    [] x = Num(42) -> "42"
    [] x = Num(1) -> "1"
    [] x = Bool(TRUE) -> "true"
    [] x = Bool(FALSE) -> "false"
    [] x = NaN -> "NaN"

\* C13: Schema.literal(x).validate(v) for non-nullish v succeeds with data v
\* iff v has the type and the value of x; otherwise it fails with the single
\* error "Value must be exactly <x>".
C13_LiteralStrictEquality ==
  LiteralTried =>
    ret.result = IF SameTypeAndValue(ret.input, heap[ret.id].value)
                 THEN Success(ret.input)
                 ELSE OwnError("Value must be exactly " \o LiteralText(heap[ret.id].value))

C13_Witness ==
  /\ LiteralTried
  /\ heap[ret.id].value = Num(42)
  /\ ret.input = Str("42")
  /\ ret.result = Failure(<<"Value must be exactly 42">>)

\* validate has returned for a Number validator given a number other than NaN.
NumberTried ==
  /\ Returned
  /\ heap[ret.id].kind = "Number"
  /\ ret.input.t = "number"
  /\ ~ret.input.nan
\* Twice the value of a number, an integer.
Doubled(v) == 2 * v.n + (IF v.half THEN 1 ELSE 0)
NumberText(v) == IF v.half THEN ToString(v.n) \o ".5" ELSE ToString(v.n)
BelowMin == heap[ret.id].min # None /\ Doubled(ret.input) < Doubled(heap[ret.id].min[1])
AboveMax == heap[ret.id].max # None /\ Doubled(ret.input) > Doubled(heap[ret.id].max[1])
MinError == "Number must be at least " \o NumberText(heap[ret.id].min[1])
MaxError == "Number must be no more than " \o NumberText(heap[ret.id].max[1])

NotInteger == heap[ret.id].integer /\ ret.input.half
NotPositive == heap[ret.id].positive /\ Doubled(ret.input) <= 0

\* C15: for every combination of min, max, integer and positive and every
\* number violating one or more of them, the result carries exactly one
\* error, that of the first violated constraint in the order min, max,
\* integer, positive.
C15_NumberFirstViolation ==
  NumberTried =>
    ret.result = IF BelowMin THEN OwnError(MinError)
                 ELSE IF AboveMax THEN OwnError(MaxError)
                 ELSE IF NotInteger THEN OwnError("Number must be an integer")
                 ELSE IF NotPositive THEN OwnError("Number must be positive")
                 ELSE Success(ret.input)

C15_Witness ==
  /\ NumberTried
  /\ heap[ret.id].min = Some(Num(1))
  /\ heap[ret.id].integer
  /\ heap[ret.id].positive
  /\ heap[ret.id].customMessage = None
  /\ ret.input = Num(-5)
  /\ ret.result = Failure(<<"Number must be at least 1">>)

StringTried == Returned /\ heap[ret.id].kind = "String" /\ ~isNullish(ret.input)
TooShort == heap[ret.id].minLength # None /\ Len(ret.input.s) < heap[ret.id].minLength[1]
TooLong == heap[ret.id].maxLength # None /\ Len(ret.input.s) > heap[ret.id].maxLength[1]
\* The strings of the model each installed pattern matches.
Language(re) ==
  CASE re = DigitsPattern -> {"1", "42", "123", "1234"}
    [] re = EmailPattern -> {"a@b.c"}
    [] re = UrlPattern -> {"http://x"}
NoMatch ==
  heap[ret.id].pattern # None /\ ret.input.s \notin Language(heap[ret.id].pattern[1].source)

WithoutMessage == [heap EXCEPT ![ret.id].customMessage = None]
\* The failure was aggregated from the children of an Array or an Object.
Aggregated == ~ret.result.success /\ (ItemsChecked \/ FieldsChecked)

\* C17: when a validator has a custom message, set by withMessage or by
\* email, url, future, past, nonEmpty or strict, every failure the validator
\* itself produces carries exactly that message as its single error, and the
\* entries an Array or Object aggregates from its children are what they are
\* without the message.
C17_CustomMessageReplaces ==
  (Returned /\ heap[ret.id].customMessage # None /\ ~ret.result.success) =>
    IF Aggregated
    THEN ret.result = validate(WithoutMessage, ret.id, ret.input)
    ELSE ret.result = Failure(<<heap[ret.id].customMessage[1]>>)

\* C17 for the messages that are not the empty string.
C17_HoldsForNonEmptyMessages ==
  (Returned /\ heap[ret.id].customMessage # Some("")) => C17_CustomMessageReplaces

\* A sugar method's message replaces the type error as well.
C17_SugarMessageOnTypeError ==
  /\ Returned
  /\ heap[ret.id].kind = "String"
  /\ heap[ret.id].pattern = Some(Regex(EmailPattern, FALSE))
  /\ ret.input = Num(1)
  /\ ret.result = Failure(<<"Must be a valid email address">>)

\* Some String validator of the heap holds a pattern with the g flag.
HoldsStatefulPattern == HoldsStatefulRegex(heap)

\* C18: with the configuration left alone, calling validate(v) again on a
\* validator that has just returned for v yields an equal result, whatever
\* its kind and also when a String validator holds a pattern.
C18_RepeatedCallsAgree ==
  Returned => validate(heap, ret.id, ret.input) = ret.result

\* C18 for validator trees in which no pattern carries the g flag.
C18_HoldsWithoutGFlag ==
  (Returned /\ ~HoldsStatefulPattern) => C18_RepeatedCallsAgree

\* C19: a validate call changes nothing but its return value: every
\* attribute of every instance is after the call what it was before.
C19_ValidateChangesNothing ==
  [][ret'.op = "validate" => heap' = heap]_vars

\* C19 for validator trees in which no pattern carries the g flag.
C19_HoldsWithoutGFlag ==
  [][(ret'.op = "validate" /\ ~HoldsStatefulPattern) => heap' = heap]_vars

DateTried == Returned /\ heap[ret.id].kind = "Date" /\ ~isNullish(ret.input)
\* The instant the platform gives a string or a number, none when it gives
\* an invalid date.
Instant(v) ==
  CASE v = Str("2023-01-01") -> Some(2)
    [] v = Str("1970-01-01") -> Some(0)
    [] v.t = "number" /\ ~v.nan -> Some(v.n)
    [] OTHER -> None

\* C20: for a non-nullish input the Date validator uses a Date object as it
\* is and converts a string or a number; an invalid date fails with "Value
\* must be a valid date", an input of any other type with "Value must be a
\* Date, string, or number"; on success data is a valid Date, the input
\* itself when that is a Date and the converted date otherwise.
C20_DateClassification ==
  DateTried =>
    /\ ret.input.t \notin {"date", "string", "number"}
         => ret.result = OwnError("Value must be a Date, string, or number")
    /\ (ret.input.t = "date" /\ ~ret.input.valid)
         => ret.result = OwnError("Value must be a valid date")
    /\ (ret.input.t \in {"string", "number"} /\ Instant(ret.input) = None)
         => ret.result = OwnError("Value must be a valid date")
    /\ ret.result.success =>
         /\ ret.result.data.t = "date"
         /\ ret.result.data.valid
         /\ ret.input.t = "date" => ret.result.data = ret.input
         /\ ret.input.t \in {"string", "number"}
              => /\ ret.result.data.ref = "fresh"
                 /\ Some(ret.result.data.time) = Instant(ret.input)

C20_Witness ==
  /\ DateTried
  /\ ret.input = Str("2023-01-01")
  /\ ret.result = Success(DateObj(TRUE, 2, "fresh"))

\* The instant of the date the input stands for, none when it is no valid
\* date.
ParsedInstant(v) ==
  CASE v.t = "date" -> IF v.valid THEN Some(v.time) ELSE None
    [] v.t \in {"string", "number"} -> Instant(v)
    [] OTHER -> None
DateParsed == DateTried /\ ParsedInstant(ret.input) # None
BeforeMin ==
  heap[ret.id].minDate # None /\ ParsedInstant(ret.input)[1] < heap[ret.id].minDate[1].time
AfterMax ==
  heap[ret.id].maxDate # None /\ ParsedInstant(ret.input)[1] > heap[ret.id].maxDate[1].time
\* The result is a single error: the custom message, or a text that starts
\* with prefix.
SingleErrorStarting(prefix) ==
  /\ ~ret.result.success
  /\ Len(ret.result.errors) = 1
  /\ IF heap[ret.id].customMessage # None
     THEN ret.result.errors[1] = heap[ret.id].customMessage[1]
     ELSE HasPrefix(ret.result.errors[1], prefix)

Contains(s, sub) ==
  \E i \in 1..(Len(s) - Len(sub) + 1) : SubSeq(s, i, i + Len(sub) - 1) = sub
\* The call ended by an exception thrown on the way.
Threw(r) == ~r.success /\ \E j \in 1..Len(r.errors) : Contains(r.errors[j], RangeErrorThrown)

\* C22: every validate call on a finite validator tree with a finite input
\* comes back, with a ValidationResult whose failures are strings in the
\* result and not an exception.
C22_ValidateReturnsResult ==
  (ret.op = "call") ~> (Returned /\ WellFormedResult(ret.result) /\ ~Threw(ret.result))

\* No call comes back by an exception.
C22_NeverThrows == Returned => ~Threw(ret.result)

\* The number of nodes of a value and of the validator tree below id.
RECURSIVE ValueSize(_)
ValueSize(v) ==
  CASE v.t = "array" ->
         LET RECURSIVE Sum(_)
             Sum(i) == IF i = 0 THEN 0 ELSE ValueSize(v.items[i]) + Sum(i - 1)
         IN 1 + Sum(Len(v.items))
    [] v.t = "object" ->
         LET RECURSIVE SumOver(_)
             SumOver(K) == IF K = {} THEN 0
                           ELSE LET k == CHOOSE x \in K : TRUE
                                IN ValueSize(v.fields[k]) + SumOver(K \ {k})
         IN 1 + SumOver(DOMAIN v.fields)
    [] OTHER -> 1
RECURSIVE TreeSize(_, _)
TreeSize(h, id) ==
  LET children ==
        CASE h[id].kind = "Array" -> <<h[id].itemValidator>>
          [] h[id].kind = "Object" -> [i \in 1..Len(h[id].schema) |-> h[id].schema[i].validator]
          [] h[id].kind = "Union" -> h[id].validators
          [] OTHER -> <<>>
      RECURSIVE Sum(_)
      Sum(i) == IF i = 0 THEN 0 ELSE TreeSize(h, children[i]) + Sum(i - 1)
  IN 1 + Sum(Len(children))
\* The number of validate invocations the call validate(value) on id makes.
RECURSIVE Invocations(_, _, _)
Invocations(h, id, value) ==
  LET self == h[id]
      RECURSIVE Items(_)
      Items(i) == IF i = 0 THEN 0
                  ELSE Invocations(h, self.itemValidator, value.items[i]) + Items(i - 1)
      RECURSIVE Fields(_)
      Fields(i) == IF i = 0 THEN 0
                   ELSE Invocations(h, self.schema[i].validator, GetProp(value, self.schema[i].key))
                        + Fields(i - 1)
      RECURSIVE Alternatives_(_)
      Alternatives_(i) == IF i = 0 THEN 0
                          ELSE Invocations(h, self.validators[i], value) + Alternatives_(i - 1)
  IN
  CASE isNullish(value) -> 1
    [] self.kind = "Array" /\ isArray(value) -> 1 + Items(Len(value.items))
    [] self.kind = "Object" /\ value.t = "object" -> 1 + Fields(Len(self.schema))
    [] self.kind = "Union" -> 1 + Alternatives_(Len(self.validators))
    [] OTHER -> 1

\* The work of a call is bounded by the sizes of the tree and of the input.
C22_BoundedWork ==
  Returned => Invocations(heap, ret.id, ret.input) <= TreeSize(heap, ret.id) * ValueSize(ret.input)

C22_Witness ==
  /\ Returned
  /\ ret.id = 10
  /\ ret.input.t = "array"
  /\ Len(ret.input.items) = 2
  /\ ~ret.result.success
  /\ Len(ret.result.errors) = 2

ArrayTried == Returned /\ heap[ret.id].kind = "Array" /\ ~isNullish(ret.input)
TooFewItems ==
  heap[ret.id].minLength # None /\ Len(ret.input.items) < heap[ret.id].minLength[1]
TooManyItems ==
  heap[ret.id].maxLength # None /\ Len(ret.input.items) > heap[ret.id].maxLength[1]
\* Some element of the input array is rejected by the item validator.
SomeItemInvalid ==
  \E i \in 1..Len(ret.input.items) :
    ~validate(heap, heap[ret.id].itemValidator, ret.input.items[i]).success

\* C23: Array validate stops at the first failing step of nullish, is-array,
\* length, items: a non-array fails with the single error "Value must be an
\* array"; an array of a wrong length fails with exactly one error ("Array
\* must have at least <n> items" / "Array must have no more than <n> items")
\* and no "Item at index" entry, invalid elements or not.
C23_ArrayStepOrder ==
  ArrayTried =>
    IF ~isArray(ret.input) THEN ret.result = OwnError("Value must be an array")
    ELSE IF TooFewItems
    THEN /\ ret.result = OwnError("Array must have at least "
                                    \o ToString(heap[ret.id].minLength[1]) \o " items")
         /\ EntriesFor(ret.result.errors, "Item at index ") = {}
    ELSE TooManyItems =>
         /\ ret.result = OwnError("Array must have no more than "
                                    \o ToString(heap[ret.id].maxLength[1]) \o " items")
         /\ EntriesFor(ret.result.errors, "Item at index ") = {}

C23_Witness ==
  /\ ArrayTried
  /\ isArray(ret.input)
  /\ TooManyItems
  /\ SomeItemInvalid
  /\ ret.result = Failure(<<"Array must have no more than 1 items">>)

\* The array validator called, after nonEmpty() and after minLength(1).
NonEmptyVariant == [heap EXCEPT ![ret.id] = nonEmpty(heap[ret.id])]
MinLengthOneVariant == [heap EXCEPT ![ret.id] = minLength(heap[ret.id], 1)]

\* C24: nonEmpty() accepts what minLength(1) accepts, with equal data; the
\* two differ only in the message of the failures the array validator itself
\* produces, the empty array failing with "Array cannot be empty".
C24_NonEmptyIsMinLengthOne ==
  (Returned /\ heap[ret.id].kind = "Array") =>
    LET sugar == validate(NonEmptyVariant, ret.id, ret.input)
        plain == validate(MinLengthOneVariant, ret.id, ret.input)
    IN
    /\ sugar.success = plain.success
    /\ sugar.success => sugar.data = plain.data
    /\ ~sugar.success =>
         IF EntriesFor(plain.errors, "Item at index ") # {}
         THEN sugar.errors = plain.errors
         ELSE sugar.errors = <<"Array cannot be empty">>
    /\ ret.input = Arr(<<>>, "input") => sugar = Failure(<<"Array cannot be empty">>)

C24_Witness ==
  /\ Returned
  /\ heap[ret.id].kind = "Array"
  /\ heap[ret.id].minLength = Some(1)
  /\ heap[ret.id].customMessage = Some("Array cannot be empty")
  /\ ret.input = Arr(<<>>, "input")
  /\ ret.result = Failure(<<"Array cannot be empty">>)

\* What the child instance c, as it is configured now, returns for v.
ChildNow(c, v) == validate(heap, c, v)
\* The entries an array validator over child c reports for items, from
\* (1-based) position i on.
RECURSIVE ItemEntriesFrom(_, _, _)
ItemEntriesFrom(c, items, i) ==
  IF i > Len(items) THEN <<>>
  ELSE (IF ChildNow(c, items[i]).success THEN <<>>
        ELSE <<"Item at index " \o ToString(i - 1) \o ": "
                 \o join(ChildNow(c, items[i]).errors, ", ")>>)
       \o ItemEntriesFrom(c, items, i + 1)

\* A parent got past its own checks and asked its child.
ChildAsked ==
  /\ Returned
  /\ ~isNullish(ret.input)
  /\ heap[ret.id].customMessage = None
  /\ \/ heap[ret.id].kind = "Array" /\ isArray(ret.input)
     \/ heap[ret.id].kind = "Object" /\ ret.input.t = "object"
     \/ heap[ret.id].kind = "Union"

\* C25: a composite asks the very instance it was constructed with: whatever
\* was configured on the child after the parent was built, an Array, Object
\* or Union parent reports what the child as it is now returns, and so do
\* two parents holding the same child.
C25_ChildrenAreShared ==
  ChildAsked =>
    CASE heap[ret.id].kind = "Array" ->
           LET c == heap[ret.id].itemValidator
               entries == ItemEntriesFrom(c, ret.input.items, 1)
           IN IF entries = <<>>
              THEN ret.result =
                     Success(Arr([i \in 1..Len(ret.input.items) |->
                                    ChildNow(c, ret.input.items[i]).data], "fresh"))
              ELSE ret.result = Failure(entries)
      [] heap[ret.id].kind = "Object" ->
           LET c == heap[ret.id].schema[1].validator
               r == ChildNow(c, GetProp(ret.input, "a"))
           IN IF r.success
              THEN ret.result =
                     Success(Obj(IF r.data = Undefined THEN <<>> ELSE [a |-> r.data], "fresh"))
              ELSE ret.result = Failure(<<"Field 'a': " \o join(r.errors, ", ")>>)
      [] heap[ret.id].kind = "Union" ->
           LET r == ChildNow(heap[ret.id].validators[1], ret.input)
           IN IF r.success THEN ret.result = r
              ELSE ret.result = Failure(<<UnionDefaultMessage>>)

\* The child was given min(2) after its parents were built, and the second
\* array validator holding it rejects 1.
C25_Witness ==
  /\ ChildAsked
  /\ ret.id = 5
  /\ nconf = 1
  /\ heap[1].min = Some(Num(2))
  /\ ret.input = Arr(<<Num(1)>>, "input")
  /\ ret.result = Failure(<<"Item at index 0: Number must be at least 2">>)

\* The instant a bound of the date validator holds, if it holds one.
BoundInstant(bound) == IF bound = None THEN None ELSE Some(bound[1].time)

\* The date validator's answer depends on the captured instants only.
AnswersFromCapturedInstants ==
  DateParsed =>
    LET d == ParsedInstant(ret.input)[1]
        from == BoundInstant(heap[ret.id].minDate)
        to == BoundInstant(heap[ret.id].maxDate)
        ok == (from = None \/ d >= from[1]) /\ (to = None \/ d <= to[1])
    IN /\ ret.result.success <=> ok
       /\ ret.result.success => ret.result.data.time = d
       /\ ~ok => ret.result = Failure(<<heap[ret.id].customMessage[1]>>)

C26_PastWitness ==
  /\ Returned
  /\ heap[ret.id].maxDate = Some(DateObj(TRUE, 1, "fresh"))
  /\ now = 3
  /\ ret.input = DateObj(TRUE, 2, "input")
  /\ ret.result = Failure(<<"Date must be in the past">>)

\* A union validator was given null or undefined.
UnionGivenNullish ==
  Returned /\ heap[ret.id].kind = "Union" /\ isNullish(ret.input)

\* C27: a union settles null and undefined itself, before and whatever its
\* alternatives are: not optional, it fails with "Value is required" (through
\* createError) even when an alternative is optional; optional, it succeeds
\* with data undefined even when every alternative rejects the value.
C27_UnionNullishFirst ==
  UnionGivenNullish =>
    ret.result = IF heap[ret.id].optional
                 THEN Success(Undefined)
                 ELSE createError(heap[ret.id], "Value is required")

\* A union that is not optional, over an alternative that is, fails null.
C27_Witness ==
  /\ UnionGivenNullish
  /\ ~heap[ret.id].optional
  /\ Len(heap[ret.id].validators) > 0
  /\ heap[heap[ret.id].validators[1]].optional
  /\ validate(heap, heap[ret.id].validators[1], ret.input).success
  /\ ret.input = Null
  /\ ret.result = Failure(<<"Value is required">>)

\* An optional union whose alternatives all reject null accepts it.
C27_OptionalWitness ==
  /\ UnionGivenNullish
  /\ heap[ret.id].optional
  /\ Len(heap[ret.id].validators) > 0
  /\ \A i \in DOMAIN heap[ret.id].validators :
        ~validate(heap, heap[ret.id].validators[i], ret.input).success
  /\ ret.input = Null
  /\ ret.result = Success(Undefined)

\* The messages a program passes to withMessage here, the empty one included.
ChainMessages == Messages \cup {""}

\* Two configuration calls in a row on self, whatever the calls before left
\* in it: each attribute holds what the later call that writes it gave, and
\* a call leaves alone the attributes it does not write.
LastWriterWins(self) ==
  /\ optional(self).optional
  /\ \A m \in ChainMessages :
       /\ withMessage(self, m).optional = self.optional
       /\ withMessage(withMessage(self, "custom"), m).customMessage = Some(m)
  /\ self.kind = "String" =>
       /\ \A m \in ChainMessages :
            /\ email(withMessage(self, m)).customMessage = Some("Must be a valid email address")
            /\ withMessage(email(self), m).customMessage = Some(m)
            /\ withMessage(email(self), m).pattern = Some(Regex(EmailPattern, FALSE))
            /\ url(withMessage(self, m)).customMessage = Some("Must be a valid URL")
            /\ withMessage(url(self), m).customMessage = Some(m)
       /\ email(url(self)).pattern = Some(Regex(EmailPattern, FALSE))
       /\ email(url(self)).customMessage = Some("Must be a valid email address")
       /\ url(email(self)).pattern = Some(Regex(UrlPattern, FALSE))
       /\ url(email(self)).customMessage = Some("Must be a valid URL")
       /\ \A re \in Patterns :
            /\ pattern(email(self), re).pattern = Some(re)
            /\ pattern(email(self), re).customMessage = Some("Must be a valid email address")
            /\ email(pattern(self, re)).pattern = Some(Regex(EmailPattern, FALSE))
            /\ url(pattern(self, re)).pattern = Some(Regex(UrlPattern, FALSE))
       /\ \A a \in Lengths, b \in Lengths :
            minLength(minLength(self, a), b).minLength = Some(b)
       /\ email(self).optional = self.optional /\ email(self).minLength = self.minLength
  /\ self.kind = "Array" =>
       /\ \A n \in Lengths :
            /\ minLength(nonEmpty(self), n).minLength = Some(n)
            /\ minLength(nonEmpty(self), n).customMessage = Some("Array cannot be empty")
            /\ nonEmpty(minLength(self, n)).minLength = Some(1)
       /\ \A m \in ChainMessages :
            /\ withMessage(nonEmpty(self), m).customMessage = Some(m)
            /\ nonEmpty(withMessage(self, m)).customMessage = Some("Array cannot be empty")
       /\ nonEmpty(self).maxLength = self.maxLength
  /\ self.kind = "Date" =>
       /\ \A d \in Dates, t \in 0..MaxNow :
            /\ future(dateMin(self, d), t).minDate = Some(DateObj(TRUE, t, "fresh"))
            /\ dateMin(future(self, t), d).minDate = Some(d)
            /\ dateMin(future(self, t), d).customMessage = Some("Date must be in the future")
            /\ past(dateMax(self, d), t).maxDate = Some(DateObj(TRUE, t, "fresh"))
            /\ dateMax(past(self, t), d).maxDate = Some(d)
            /\ future(self, t).maxDate = self.maxDate
            /\ past(self, t).minDate = self.minDate
            /\ past(future(self, t), t).customMessage = Some("Date must be in the past")
            /\ future(past(self, t), t).customMessage = Some("Date must be in the future")
       /\ \A m \in ChainMessages :
            /\ withMessage(future(self, 0), m).customMessage = Some(m)
            /\ future(withMessage(self, m), 0).customMessage = Some("Date must be in the future")
  /\ self.kind = "Object" =>
       \A m \in ChainMessages :
         /\ withMessage(strict(self), m).customMessage = Some(m)
         /\ strict(withMessage(self, m)).customMessage = Some(StrictMessage)

\* A string validator holding the pattern of email() and a message was given
\* a number.
EmailChainReported ==
  /\ Returned
  /\ heap[ret.id].kind = "String"
  /\ ~heap[ret.id].optional
  /\ heap[ret.id].pattern = Some(Regex(EmailPattern, FALSE))
  /\ heap[ret.id].customMessage # None
  /\ ret.input = Num(123)

\* C28: configuration is last-writer-wins per attribute, and what a chain
\* ending in withMessage(m) reports is m: Schema.string().withMessage(m)
\* .email() reports the email message, .email().withMessage(m) reports m.
C28_LastWriterWins ==
  /\ \A id \in DOMAIN heap : LastWriterWins(heap[id])
  /\ EmailChainReported => ret.result = Failure(<<heap[ret.id].customMessage[1]>>)

\* C28, the attributes alone: they are last-writer-wins, the empty message
\* included.
C28_AttributesLastWriterWin == \A id \in DOMAIN heap : LastWriterWins(heap[id])

\* C28, what is reported for every message but the empty one.
C28_ReportsNonEmptyMessage ==
  (EmailChainReported /\ heap[ret.id].customMessage # Some(""))
    => ret.result = Failure(<<heap[ret.id].customMessage[1]>>)

\* C28: a configuration call returns the instance it was called on, creates
\* no instance and touches no other one.
C28_SameInstance ==
  [][nconf' # nconf =>
       /\ ret'.op = "ref"
       /\ DOMAIN heap' = DOMAIN heap
       /\ \A j \in DOMAIN heap : j # ret'.id => heap'[j] = heap[j]
       /\ heap'[ret'.id].kind = heap[ret'.id].kind]_vars

\* email() then withMessage("custom"), and the number is refused with
\* "custom".
C28_ChainWitness ==
  /\ EmailChainReported
  /\ nconf = 1
  /\ ret.result = Failure(<<"custom">>)

\* email() then withMessage(""), and the number is refused with the type
\* error.
C28_EmptyMessageLost ==
  /\ EmailChainReported
  /\ heap[ret.id].customMessage = Some("")
  /\ ret.result = Failure(<<"Value must be a string">>)

\* The schema entries whose validator refuses the input's value, in the
\* schema's enumeration order.
RefusedEntries ==
  SelectSeq(heap[ret.id].schema,
            LAMBDA f : ~validate(heap, f.validator, GetProp(ret.input, f.key)).success)
\* The (0-based) indexes of the input's elements the item validator refuses.
RefusedIndexes ==
  {i \in 0..(Len(ret.input.items) - 1) :
     ~validate(heap, heap[ret.id].itemValidator, ret.input.items[i + 1]).success}
\* The j-th smallest member of a set of numbers.
Nth(S, j) == CHOOSE i \in S : Cardinality({x \in S : x < i}) = j - 1

\* C29: the errors of a failed Object result follow the enumeration order of
\* the schema's fields (the j-th entry is about the j-th refused field of the
\* schema), and the entries of a failed Array result are in strictly
\* ascending index order (the j-th entry is about the j-th smallest refused
\* index).
C29_ErrorsInSchemaAndIndexOrder ==
  /\ (FieldsChecked /\ ~ret.result.success) =>
       /\ Len(ret.result.errors) = Len(RefusedEntries)
       /\ \A j \in 1..Len(RefusedEntries) :
            HasPrefix(ret.result.errors[j], "Field '" \o RefusedEntries[j].key \o "': ")
  /\ (ItemsChecked /\ ~ret.result.success) =>
       /\ Len(ret.result.errors) = Cardinality(RefusedIndexes)
       /\ \A j \in 1..Cardinality(RefusedIndexes) :
            HasPrefix(ret.result.errors[j], ItemPrefix(Nth(RefusedIndexes, j)))

\* The schema enumerates b before a, both are refused, and b's entry comes
\* first.
C29_Witness ==
  /\ FieldsChecked
  /\ heap[ret.id].schema[1].key = "b"
  /\ heap[ret.id].schema[2].key = "a"
  /\ ~ret.result.success
  /\ Len(ret.result.errors) = 2
  /\ HasPrefix(ret.result.errors[1], "Field 'b': ")
  /\ HasPrefix(ret.result.errors[2], "Field 'a': ")

\* Both elements of an array are refused, index 0 first.
C29_ArrayWitness ==
  /\ ItemsChecked
  /\ ~ret.result.success
  /\ Len(ret.result.errors) = 2
  /\ HasPrefix(ret.result.errors[1], ItemPrefix(0))
  /\ HasPrefix(ret.result.errors[2], ItemPrefix(1))

\* What the item validator returns for the input's element at (1-based)
\* position i.
ItemData(i) == validate(heap, heap[ret.id].itemValidator, ret.input.items[i]).data

\* C30: a successful Array validate returns a new array, not the input, of
\* the input's length, whose element i is the data the item validator
\* returned for the input's element i: converted values and the undefined of
\* an optional child included, nothing dropped or reordered.
C30_ArrayDataElementwise ==
  (ItemsChecked /\ ret.result.success) =>
    /\ ret.result.data.t = "array"
    /\ ret.result.data.ref = "fresh"
    /\ ret.result.data # ret.input
    /\ Len(ret.result.data.items) = Len(ret.input.items)
    /\ \A i \in 1..Len(ret.input.items) : ret.result.data.items[i] = ItemData(i)

\* An optional Date child turns a date string into a Date and null into
\* undefined, each at its place.
C30_Witness ==
  /\ ItemsChecked
  /\ heap[heap[ret.id].itemValidator].kind = "Date"
  /\ heap[heap[ret.id].itemValidator].optional
  /\ ret.input = Arr(<<Str("2023-01-01"), Null>>, "input")
  /\ ret.result = Success(Arr(<<DateObj(TRUE, 2, "fresh"), Undefined>>, "fresh"))

=============================================================================
